---- MODULE Spec2Model ----
(***************************************************************************)
(* A model of the code interpreter service's execution engine:             *)
(*   - KubernetesCodeExecutor (kubernetes_code_executor.py): the warm pool  *)
(*     of executor pods (executor_pod, fill_executor_pod_queue,             *)
(*     spawn_executor_pod) and execute (upload, POST /execute, download),  *)
(*   - the tenacity retry wrappers around execute and spawn_executor_pod,  *)
(*   - the parts of Storage (storage.py) and Kubectl (kubectl.py) that     *)
(*     execute goes through.                                               *)
(* The service is one asyncio event loop: the code between two awaits is   *)
(* one atomic step, and every action below is one such step.               *)
(***************************************************************************)
EXTENDS Integers, Sequences, FiniteSets, TLC

VARIABLES
    executor_pod_queue_target_length,   \* self.executor_pod_queue_target_length
    executor_pod_queue,                 \* self.executor_pod_queue (deque of pods)
    executor_pod_queue_spawning_count,  \* self.executor_pod_queue_spawning_count
    cluster,         \* the orchestrator: pod name -> phase
    fill_scheduled,  \* fill_executor_pod_queue tasks created and not yet started
    fill_tasks,      \* the running fill_executor_pod_queue tasks
    delete_tasks,    \* the pods of the kubectl.delete tasks created and not ended
    tasks,           \* the execute calls, one record per caller
    file_storage,    \* the Object Store directory: file name -> content
    storage_tasks,   \* the running Storage.writer scopes and Storage.read calls
    front,           \* a request, and the response of each front-end to it
    parse_call,      \* a tool source, and what CustomToolExecutor.parse made of it
    kubectl_call,    \* a call on the Kubectl adapter, and the command line it built
    loop,            \* the event loop's view of concurrent fills: what finished when, who is resumed
    restore_call,    \* PodFilesystemStateManager: one call of restore and the pod's files
    yielded,         \* history: pod name -> times executor_pod yielded it
    released,        \* history: pods whose deletion executor_pod has scheduled
    faults           \* failures the environment may still inject

vars ==
    << executor_pod_queue_target_length, executor_pod_queue,
       executor_pod_queue_spawning_count, cluster, fill_scheduled, fill_tasks,
       delete_tasks, tasks, file_storage, storage_tasks, front, parse_call,
       kubectl_call, loop, restore_call, yielded, released,
       faults >>

poolVars ==
    << executor_pod_queue, executor_pod_queue_spawning_count, fill_scheduled,
       fill_tasks >>

----------------------------------------------------------------------------
(* Bounds of the model *)

\* pod names the orchestrator can generate in one run
MaxPods == 3
\* largest configured target length of the warm queue
MaxTarget == 2
\* failures the environment may inject in one run of the pool scenarios and
\* of the storage scenarios
MaxFaults == 1
\* failures the environment may inject in one run of the file scenarios
MaxFileFaults == 3
\* length of the longest byte string written to the store
MaxLen == 2
\* top-level statements of the longest tool source
MaxStmts == 3
\* parameters of one kind in the longest signature
MaxParams == 2
\* nesting depth of the deepest annotation
MaxDepth == 2
\* positional arguments of the longest Kubectl call
MaxArgs == 3
\* keyword arguments of the largest Kubectl call
MaxKwargs == 2
\* spawn tasks the fills create in one run of the event-loop scenarios
MaxSpawns == 4
\* calls of executor_pod in one run of the event-loop scenarios
MaxAcquires == 2
\* largest configured target length in the event-loop scenarios
MaxLoopTarget == 3

(* Program constants *)

\* stop_after_attempt(3), on execute and on spawn_executor_pod
StopAfterAttempt == 3

Pods == 1 .. MaxPods
NoPod == 0

\* the callers of execute in the pool scenarios and in the file scenarios
PoolCallers == {"e1", "e2"}
FileCallers == {"e1"}
Callers == PoolCallers \cup FileCallers

Paths == {"/workspace/a", "/workspace/b"}
Contents == {"c1", "c2"}

----------------------------------------------------------------------------
(* Storage (storage.py) *)

\* hashlib.sha256(...).hexdigest(): injective on the contents of the model
Sha256(c) == IF c = "c1" THEN "h1" ELSE "h2"

Hashes == {Sha256(c) : c \in Contents}

\* Storage.exists: a pure existence check of the file named by the hash
StorageExists(store, h) == h \in DOMAIN store

\* Storage.writer on a successful scope exit: the temporary file is renamed
\* to the hex digest of what was written unless that name already exists
StorageCommit(store, c) ==
    IF StorageExists(store, Sha256(c)) THEN store
    ELSE store @@ (Sha256(c) :> c)

\* every content of a store whose blobs are named by their own hash
Stores == {[h \in {Sha256(c) : c \in S} |-> CHOOSE c \in S : Sha256(c) = h] :
              S \in SUBSET Contents}

----------------------------------------------------------------------------
(* The tenacity wrappers (kubernetes_code_executor.py, lines 73-77, 198-202) *)

\* a retry wrapper that reruns the function whatever it raised
RetryIfAnyException(err) == TRUE

\* retry_if_exception_type(RuntimeError); Kubectl._command raises RuntimeError
\* for a kubectl command that exits non-zero
RetryIfExceptionType(err) == err = "RuntimeError"

\* a wrapper that stops one attempt late
RetryDecisionOneMore(attempt, err) ==
    IF ~RetryIfExceptionType(err) THEN "raise"
    ELSE IF attempt > StopAfterAttempt THEN "retry_error"
    ELSE "retry"

\* what the wrapper does with an attempt that raised err: run the function
\* again, raise err itself, or (attempts used up) raise tenacity's RetryError
RetryDecision(attempt, err) ==
    IF ~RetryIfExceptionType(err) THEN "raise"
    ELSE IF attempt >= StopAfterAttempt THEN "retry_error"
    ELSE "retry"

\* the exception a call ends with when its attempt raised err and is not rerun
RaisedError(attempt, err) ==
    IF RetryDecision(attempt, err) = "retry_error" THEN "RetryError" ELSE err

----------------------------------------------------------------------------
(* spawn_executor_pod: kubectl create, then kubectl wait --for=condition=Ready *)

NoSpawn == [pc |-> "none", attempt |-> 0, pod |-> NoPod]
NewSpawn == [pc |-> "create", attempt |-> 1, pod |-> NoPod]

\* metadata.generateName: the orchestrator picks a name no pod ever had
HasFreshName(cl) == \E p \in Pods : cl[p] = "absent"
FreshName(cl) == CHOOSE p \in Pods :
    cl[p] = "absent" /\ \A q \in Pods : q < p => cl[q] # "absent"

\* kubectl create returned the new pod: next comes the wait for Ready
SpawnCreated(sp, p) == [sp EXCEPT !.pc = "wait", !.pod = p]

\* kubectl wait returned the pod: spawn_executor_pod returns it
SpawnReady(sp) == [sp EXCEPT !.pc = "done"]

\* a kubectl command of the attempt raised RuntimeError: the wrapper runs the
\* whole function again (a new kubectl create) or gives up with RetryError
SpawnAttemptFailed(sp) ==
    IF RetryDecision(sp.attempt, "RuntimeError") = "retry"
    THEN [pc |-> "create", attempt |-> sp.attempt + 1, pod |-> NoPod]
    ELSE [pc |-> "failed", attempt |-> sp.attempt, pod |-> NoPod]

RemoveAt(s, i) == SubSeq(s, 1, i - 1) \o SubSeq(s, i + 1, Len(s))

----------------------------------------------------------------------------
(* fill_executor_pod_queue *)

\* a count that forgets the spawns already in flight
CountToSpawnNoInFlight(target, queue, spawning) == target - Len(queue)

\* a count that keeps the queue one short of the target
CountToSpawnOneShort(target, queue, spawning) ==
    target - Len(queue) - spawning - 1

CountToSpawn(target, queue, spawning) == target - Len(queue) - spawning

\* lines 162-182: count_to_spawn, the early return, the increment of the
\* spawning count and the creation of the spawn tasks, with no await between
FillStart ==
    /\ fill_scheduled > 0
    /\ fill_scheduled' = fill_scheduled - 1
    /\ LET count_to_spawn == CountToSpawn(executor_pod_queue_target_length,
                                          executor_pod_queue,
                                          executor_pod_queue_spawning_count)
       IN IF count_to_spawn <= 0
          THEN UNCHANGED << executor_pod_queue_spawning_count, fill_tasks >>
          ELSE /\ executor_pod_queue_spawning_count' =
                      executor_pod_queue_spawning_count + count_to_spawn
               /\ fill_tasks' = Append(fill_tasks,
                      [spawns |-> [i \in 1 .. count_to_spawn |-> NewSpawn],
                       done |-> << >>, cancelled |-> FALSE])
    /\ UNCHANGED << executor_pod_queue_target_length, restore_call, loop, parse_call, kubectl_call,
                    storage_tasks, front, executor_pod_queue, cluster,
                    delete_tasks, tasks, file_storage, yielded, released,
                    faults >>

\* a spawn task of fill f ends its attempt: the task goes on, or finishes and
\* joins the fill's as_completed queue with its result (NoPod: an exception)
FillSpawnStep(f, i, sp) ==
    fill_tasks' =
        IF sp.pc \in {"done", "failed"}
        THEN [fill_tasks EXCEPT ![f] =
                 [@ EXCEPT !.spawns = RemoveAt(@, i),
                           !.done = Append(@, IF sp.pc = "done" THEN sp.pod
                                              ELSE NoPod)]]
        ELSE [fill_tasks EXCEPT ![f].spawns[i] = sp]

\* lines 207-242 in a spawn task of a fill: kubectl create
FillSpawnCreate(f, i) ==
    /\ fill_tasks[f].spawns[i].pc = "create"
    /\ \/ /\ HasFreshName(cluster)
          /\ cluster' = [cluster EXCEPT ![FreshName(cluster)] = "Pending"]
          /\ FillSpawnStep(f, i, SpawnCreated(fill_tasks[f].spawns[i], FreshName(cluster)))
          /\ UNCHANGED faults
       \/ /\ faults > 0
          /\ faults' = faults - 1
          /\ FillSpawnStep(f, i, SpawnAttemptFailed(fill_tasks[f].spawns[i]))
          /\ UNCHANGED cluster
    /\ UNCHANGED << executor_pod_queue_target_length, restore_call, loop, parse_call, kubectl_call,
                    storage_tasks, front, executor_pod_queue,
                    executor_pod_queue_spawning_count, fill_scheduled,
                    delete_tasks, tasks, file_storage, yielded, released >>

\* lines 243-246 in a spawn task of a fill: kubectl wait
FillSpawnWait(f, i) ==
    /\ fill_tasks[f].spawns[i].pc = "wait"
    /\ \/ /\ cluster' = [cluster EXCEPT ![fill_tasks[f].spawns[i].pod] = "Ready"]
          /\ FillSpawnStep(f, i, SpawnReady(fill_tasks[f].spawns[i]))
          /\ UNCHANGED faults
       \/ /\ faults > 0
          /\ faults' = faults - 1
          /\ FillSpawnStep(f, i, SpawnAttemptFailed(fill_tasks[f].spawns[i]))
          /\ UNCHANGED cluster
    /\ UNCHANGED << executor_pod_queue_target_length, restore_call, loop, parse_call, kubectl_call,
                    storage_tasks, front, executor_pod_queue,
                    executor_pod_queue_spawning_count, fill_scheduled,
                    delete_tasks, tasks, file_storage, yielded, released >>

\* a loop that awaits the finished spawn task and forgets its pod
QueueAfterSpawnDropped(queue, r) == queue

\* line 184: the queue after the loop has awaited a finished spawn task
QueueAfterSpawn(queue, r) == IF r # NoPod THEN Append(queue, r) ELSE queue

\* lines 183-189, one iteration of the as_completed loop: the pod of a spawn
\* that returned is appended, an exception is logged, the count goes down
FillConsume(f) ==
    /\ ~fill_tasks[f].cancelled
    /\ fill_tasks[f].done # << >>
    /\ executor_pod_queue' = QueueAfterSpawn(executor_pod_queue, Head(fill_tasks[f].done))
    /\ executor_pod_queue_spawning_count' = executor_pod_queue_spawning_count - 1
    /\ fill_tasks' =
          IF fill_tasks[f].spawns = << >> /\ Len(fill_tasks[f].done) = 1
          THEN RemoveAt(fill_tasks, f)
          ELSE [fill_tasks EXCEPT ![f].done = Tail(@)]
    /\ UNCHANGED << executor_pod_queue_target_length, restore_call, loop, parse_call, kubectl_call,
                    storage_tasks, front, cluster, fill_scheduled,
                    delete_tasks, tasks, file_storage, yielded, released,
                    faults >>

\* the fill task is cancelled while it is suspended in line 184: the await
\* raises CancelledError, which is no Exception, so line 185 does not catch
\* it; the finally of line 188 takes one off the count and the exception
\* leaves the loop and ends the task. The spawn tasks are tasks of their own
\* and run on; nothing awaits them any more
FillCancel(f) ==
    /\ ~fill_tasks[f].cancelled
    /\ faults > 0
    /\ faults' = faults - 1
    /\ executor_pod_queue_spawning_count' = executor_pod_queue_spawning_count - 1
    /\ fill_tasks' = [fill_tasks EXCEPT ![f].cancelled = TRUE]
    /\ UNCHANGED << executor_pod_queue_target_length, restore_call, loop, parse_call, kubectl_call,
                    storage_tasks, front, executor_pod_queue, cluster,
                    fill_scheduled, delete_tasks, tasks, file_storage,
                    yielded, released >>

----------------------------------------------------------------------------
(* The orchestrator *)

\* the orchestrator's side: a pod waiting in the queue stops being Ready
\* (its container exits, its node is drained); nothing in the service is told
PodLosesReady(p) ==
    /\ cluster[p] = "Ready"
    /\ \E i \in 1 .. Len(executor_pod_queue) : executor_pod_queue[i] = p
    /\ faults > 0
    /\ faults' = faults - 1
    /\ cluster' = [cluster EXCEPT ![p] = "NotReady"]
    /\ UNCHANGED << executor_pod_queue_target_length, restore_call, loop, parse_call, kubectl_call,
                    storage_tasks, front, poolVars, delete_tasks, tasks,
                    file_storage, yielded, released >>

----------------------------------------------------------------------------
(* execute: the state of one call *)

EmptyMap == [p \in {} |-> ""]

\* pc: where the task of the call is suspended; attempt: the attempt of the
\* retry wrapper of execute; spawn: spawn_executor_pod when the call runs it
\* itself; pod: the pod executor_pod has yielded; files, uploads, posted,
\* response, downloads: the body of execute; error, result: how the call
\* ended. History: created (pods the call's own spawns created), pods (pods
\* yielded to the call), raised (the exception of each failed attempt)
IdleTask ==
    [pc |-> "idle", attempt |-> 0, spawn |-> NoSpawn, pod |-> NoPod,
     created |-> {}, pods |-> {}, files |-> EmptyMap, uploads |-> EmptyMap,
     posted |-> FALSE, response |-> EmptyMap, downloads |-> EmptyMap,
     raised |-> << >>, error |-> "None", result |-> EmptyMap]

\* the file maps a caller may pass: path -> hash
FileMaps == UNION {[S -> Hashes] : S \in SUBSET Paths}

\* one entry of the "files" list of the sandbox's answer to POST /execute;
\* the empty string stands for a file that does not exist
FileEntries ==
    {[old_hash |-> o, new_hash |-> n] : o \in {"", "h1"}, n \in {"", "h1", "h2"}}

\* the "files" a sandbox may answer with, by path
Responses == UNION {[S -> FileEntries] : S \in SUBSET Paths}

\* the positions of a call at which its task is suspended inside the scope of
\* executor_pod (between the yield and the finally)
InScope == {"upload", "post", "download"}

\* changed_files without the comparison of the two hashes
ChangedFilesAnyHash(response) ==
    [p \in {q \in DOMAIN response : response[q].new_hash # ""}
       |-> response[p].new_hash]

\* lines 122-126: changed_files
ChangedFiles(response) ==
    [p \in {q \in DOMAIN response :
               /\ response[q].old_hash # response[q].new_hash
               /\ response[q].new_hash # ""}
       |-> response[p].new_hash]

\* line 138: what download_file returns beside the path, given the digest of
\* the bytes it stored. stored_file.hash is the writer's method hash(), and
\* the code does not call it: the value is the bound method, not the digest
StoredFileHash(digest) == "<bound method hash>"

\* a body that does not await the upload tasks
UploadsNotAwaited(uploads) == TRUE

\* asyncio.gather of the upload tasks (lines 105-110) has returned
UploadsGathered(uploads) == \A p \in DOMAIN uploads : uploads[p] # "todo"

\* asyncio.gather of the download tasks (lines 143-148) has returned
DownloadsGathered(downloads) ==
    \A p \in DOMAIN downloads : downloads[p].pc = "returned"

\* lines 141-149: the dict built from the gathered (path, hash) pairs; a
\* download_file that returned None cannot be unpacked: TypeError
CanUnpack(downloads) == \A p \in DOMAIN downloads : downloads[p].ret # "None"
StoredFiles(downloads) == [p \in DOMAIN downloads |-> downloads[p].ret]

\* the bytes the sandbox serves for a file whose hash it reported as h
WorkspaceBytes(h) == CHOOSE c \in Contents : Sha256(c) = h

\* a release that runs after the yield instead of in a finally
ScheduledDeletesOnReturn(dels, pod, exit) ==
    IF exit = "return" THEN dels \cup {pod} ELSE dels

\* lines 262-264, the finally of executor_pod: the deletions scheduled once
\* the scope of pod is left by a return, an exception or a cancellation
ScheduledDeletes(dels, pod, exit) == dels \cup {pod}

\* the call after an attempt raised err: the retry wrapper of execute runs
\* another attempt, or the call ends with the exception the wrapper raises
AfterRaise(t, err) ==
    IF RetryDecision(t.attempt, err) = "retry"
    THEN [t EXCEPT !.pc = "backoff", !.attempt = @ + 1, !.spawn = NoSpawn,
                   !.pod = NoPod, !.uploads = EmptyMap, !.posted = FALSE,
                   !.response = EmptyMap, !.downloads = EmptyMap,
                   !.raised = Append(@, err)]
    ELSE [t EXCEPT !.pc = "failed", !.error = RaisedError(t.attempt, err),
                   !.spawn = NoSpawn, !.pod = NoPod,
                   !.raised = Append(@, err)]

\* an exception leaves the scope of executor_pod: the finally runs, then the
\* retry wrapper decides
RaiseInScope(e, err) ==
    /\ delete_tasks' = ScheduledDeletes(delete_tasks, tasks[e].pod, "raise")
    /\ released' = ScheduledDeletes(released, tasks[e].pod, "raise")
    /\ tasks' = [tasks EXCEPT ![e] = AfterRaise(@, err)]

\* lines 92-119, from the yield of executor_pod to the first await of the
\* body: with files to upload the body awaits the gather of the upload
\* tasks; with none, gather() is already done and POST /execute is sent
EnterScope(t, pod) ==
    IF DOMAIN t.files = {}
    THEN [t EXCEPT !.pc = "post", !.pod = pod, !.pods = @ \cup {pod},
                   !.spawn = NoSpawn, !.posted = TRUE]
    ELSE [t EXCEPT !.pc = "upload", !.pod = pod, !.pods = @ \cup {pod},
                   !.spawn = NoSpawn,
                   !.uploads = [p \in DOMAIN t.files |-> "todo"]]

----------------------------------------------------------------------------
(* execute: the steps of one call *)

\* a queue read with [0] instead of popleft()
PeekLeft(queue) == queue

\* the queue after pop(), which takes the right end
PopRight(queue) == SubSeq(queue, 1, Len(queue) - 1)

\* line 254: the queue after popleft()
PopLeft(queue) == Tail(queue)

\* lines 253-261 with a non-empty queue: popleft, create the fill task, yield
AcquirePop(e, t) ==
    /\ executor_pod_queue # << >>
    /\ executor_pod_queue' = PopLeft(executor_pod_queue)
    /\ fill_scheduled' = fill_scheduled + 1
    /\ yielded' = [yielded EXCEPT ![Head(executor_pod_queue)] = @ + 1]
    /\ tasks' = [tasks EXCEPT ![e] = EnterScope(t, Head(executor_pod_queue))]

\* lines 253-256 with an empty queue: the call starts spawn_executor_pod itself
AcquireSpawn(e, t) ==
    /\ executor_pod_queue = << >>
    /\ tasks' = [tasks EXCEPT ![e] = [t EXCEPT !.pc = "spawn", !.spawn = NewSpawn]]
    /\ UNCHANGED << executor_pod_queue, fill_scheduled, yielded >>

\* a front-end calls execute(source_code, files): the first attempt runs up
\* to its first await, which is inside the scope of executor_pod or inside
\* spawn_executor_pod
ExecuteCall(e, inputs) ==
    /\ tasks[e].pc = "idle"
    /\ \E files \in inputs :
          \/ AcquirePop(e, [tasks[e] EXCEPT !.attempt = 1, !.files = files])
          \/ AcquireSpawn(e, [tasks[e] EXCEPT !.attempt = 1, !.files = files])
    /\ UNCHANGED << executor_pod_queue_target_length, restore_call, loop, parse_call, kubectl_call,
                    storage_tasks, front, executor_pod_queue_spawning_count,
                    fill_tasks, cluster, delete_tasks, file_storage, released,
                    faults >>

\* the wait of the retry wrapper (wait_exponential) is over: the next attempt
\* of execute runs up to its first await
ExecuteRetry(e) ==
    /\ tasks[e].pc = "backoff"
    /\ \/ AcquirePop(e, tasks[e])
       \/ AcquireSpawn(e, tasks[e])
    /\ UNCHANGED << executor_pod_queue_target_length, restore_call, loop, parse_call, kubectl_call,
                    storage_tasks, front, executor_pod_queue_spawning_count,
                    fill_tasks, cluster, delete_tasks, file_storage, released,
                    faults >>

\* spawn_executor_pod inside the call gave up (RetryError): the exception
\* leaves executor_pod before line 258 and before the try
SyncSpawnFailed(e, sp) ==
    tasks' = [tasks EXCEPT ![e] =
        IF sp.pc = "failed" THEN AfterRaise(@, "RetryError")
        ELSE [@ EXCEPT !.spawn = sp]]

\* lines 207-242 inside the call: kubectl create
SyncSpawnCreate(e) ==
    /\ tasks[e].pc = "spawn"
    /\ tasks[e].spawn.pc = "create"
    /\ \/ /\ HasFreshName(cluster)
          /\ cluster' = [cluster EXCEPT ![FreshName(cluster)] = "Pending"]
          /\ tasks' = [tasks EXCEPT ![e] =
                [@ EXCEPT !.spawn = SpawnCreated(@, FreshName(cluster)),
                          !.created = @ \cup {FreshName(cluster)}]]
          /\ UNCHANGED faults
       \/ /\ faults > 0
          /\ faults' = faults - 1
          /\ SyncSpawnFailed(e, SpawnAttemptFailed(tasks[e].spawn))
          /\ UNCHANGED cluster
    /\ UNCHANGED << executor_pod_queue_target_length, restore_call, loop, parse_call, kubectl_call,
                    storage_tasks, front, poolVars, delete_tasks, file_storage,
                    yielded, released >>

\* lines 243-246 and 256-261 inside the call: kubectl wait, then the fill task
\* is created and the pod is yielded
SyncSpawnWait(e) ==
    /\ tasks[e].pc = "spawn"
    /\ tasks[e].spawn.pc = "wait"
    /\ \/ /\ cluster' = [cluster EXCEPT ![tasks[e].spawn.pod] = "Ready"]
          /\ fill_scheduled' = fill_scheduled + 1
          /\ yielded' = [yielded EXCEPT ![tasks[e].spawn.pod] = @ + 1]
          /\ tasks' = [tasks EXCEPT ![e] = EnterScope(@, tasks[e].spawn.pod)]
          /\ UNCHANGED faults
       \/ /\ faults > 0
          /\ faults' = faults - 1
          /\ SyncSpawnFailed(e, SpawnAttemptFailed(tasks[e].spawn))
          /\ UNCHANGED << cluster, fill_scheduled, yielded >>
    /\ UNCHANGED << executor_pod_queue_target_length, restore_call, loop, parse_call, kubectl_call,
                    storage_tasks, front, executor_pod_queue,
                    executor_pod_queue_spawning_count, fill_tasks,
                    delete_tasks, file_storage, released >>

\* lines 97-102, upload_file for one path: Storage.reader raises
\* FileNotFoundError for a hash without a blob; otherwise the PUT is answered
\* (whatever its status, the response is returned) or fails in transport
UploadFile(e, p) ==
    /\ tasks[e].pc = "upload"
    /\ p \in DOMAIN tasks[e].uploads
    /\ tasks[e].uploads[p] = "todo"
    /\ \/ /\ ~StorageExists(file_storage, tasks[e].files[p])
          /\ RaiseInScope(e, "FileNotFoundError")
          /\ UNCHANGED faults
       \/ /\ StorageExists(file_storage, tasks[e].files[p])
          /\ tasks' = [tasks EXCEPT ![e].uploads[p] = "2xx"]
          /\ UNCHANGED << delete_tasks, released, faults >>
       \/ /\ StorageExists(file_storage, tasks[e].files[p])
          /\ faults > 0
          /\ faults' = faults - 1
          /\ \/ /\ tasks' = [tasks EXCEPT ![e].uploads[p] = "5xx"]
                /\ UNCHANGED << delete_tasks, released >>
             \/ RaiseInScope(e, "TransportError")
    /\ UNCHANGED << executor_pod_queue_target_length, restore_call, loop, parse_call, kubectl_call,
                    storage_tasks, front, poolVars, cluster, file_storage,
                    yielded >>

\* lines 105-119: the gather of the uploads has returned and POST /execute
\* is sent
PostSend(e) ==
    /\ tasks[e].pc = "upload"
    /\ UploadsGathered(tasks[e].uploads)
    /\ tasks' = [tasks EXCEPT ![e] = [@ EXCEPT !.pc = "post", !.posted = TRUE]]
    /\ UNCHANGED << executor_pod_queue_target_length, restore_call, loop, parse_call, kubectl_call,
                    storage_tasks, front, poolVars, cluster, delete_tasks,
                    file_storage, yielded, released, faults >>

\* lines 113-156: the sandbox answers POST /execute and changed_files is
\* computed. With changed files the body awaits the gather of the download
\* tasks; with none, gather() is already done and the Result is returned,
\* which leaves the scope of executor_pod. Or the call raises one of errors
PostResponse(e, responses, errors) ==
    /\ tasks[e].pc = "post"
    /\ \/ /\ \E response \in responses :
                IF DOMAIN ChangedFiles(response) = {}
                THEN /\ delete_tasks' =
                            ScheduledDeletes(delete_tasks, tasks[e].pod, "return")
                     /\ released' =
                            ScheduledDeletes(released, tasks[e].pod, "return")
                     /\ tasks' = [tasks EXCEPT ![e] =
                            [@ EXCEPT !.pc = "done", !.pod = NoPod,
                                      !.response = response,
                                      !.result = EmptyMap]]
                ELSE /\ tasks' = [tasks EXCEPT ![e] =
                            [@ EXCEPT !.pc = "download", !.response = response,
                                      !.downloads =
                                          [p \in DOMAIN ChangedFiles(response) |->
                                              [pc |-> "exists", ret |-> "None"]]]]
                     /\ UNCHANGED << delete_tasks, released >>
          /\ UNCHANGED faults
       \/ /\ faults > 0
          /\ faults' = faults - 1
          /\ \E err \in errors : RaiseInScope(e, err)
    /\ UNCHANGED << executor_pod_queue_target_length, restore_call, loop, parse_call, kubectl_call,
                    storage_tasks, front, poolVars, cluster, file_storage,
                    yielded >>

\* lines 129-130, download_file for one changed path: a hash the store
\* already holds makes it return None
DownloadExists(e, p) ==
    /\ tasks[e].pc = "download"
    /\ p \in DOMAIN tasks[e].downloads
    /\ tasks[e].downloads[p].pc = "exists"
    /\ tasks' = [tasks EXCEPT ![e].downloads[p] =
          IF StorageExists(file_storage, ChangedFiles(tasks[e].response)[p])
          THEN [pc |-> "returned", ret |-> "None"]
          ELSE [pc |-> "get", ret |-> "None"]]
    /\ UNCHANGED << executor_pod_queue_target_length, restore_call, loop, parse_call, kubectl_call,
                    storage_tasks, front, poolVars, cluster, delete_tasks,
                    file_storage, yielded, released, faults >>

\* lines 131-138, download_file for one changed path: the GET is streamed
\* into a Storage.writer, which commits on scope exit; an error status makes
\* raise_for_status raise (the writer then drops its temporary file)
DownloadGet(e, p) ==
    /\ tasks[e].pc = "download"
    /\ p \in DOMAIN tasks[e].downloads
    /\ tasks[e].downloads[p].pc = "get"
    /\ \/ /\ file_storage' = StorageCommit(file_storage,
                  WorkspaceBytes(ChangedFiles(tasks[e].response)[p]))
          /\ tasks' = [tasks EXCEPT ![e].downloads[p] =
                [pc |-> "returned",
                 ret |-> StoredFileHash(ChangedFiles(tasks[e].response)[p])]]
          /\ UNCHANGED << delete_tasks, released, faults >>
       \/ /\ faults > 0
          /\ faults' = faults - 1
          /\ RaiseInScope(e, "HTTPStatusError")
          /\ UNCHANGED file_storage
    /\ UNCHANGED << executor_pod_queue_target_length, restore_call, loop, parse_call, kubectl_call,
                    storage_tasks, front, poolVars, cluster, yielded >>

\* lines 141-156: the gather of the downloads has returned; stored_files is
\* built and the Result returned, which leaves the scope of executor_pod
ExecuteReturn(e) ==
    /\ tasks[e].pc = "download"
    /\ DownloadsGathered(tasks[e].downloads)
    /\ IF CanUnpack(tasks[e].downloads)
       THEN /\ delete_tasks' = ScheduledDeletes(delete_tasks, tasks[e].pod, "return")
            /\ released' = ScheduledDeletes(released, tasks[e].pod, "return")
            /\ tasks' = [tasks EXCEPT ![e] =
                  [@ EXCEPT !.pc = "done", !.pod = NoPod,
                            !.result = StoredFiles(tasks[e].downloads)]]
       ELSE RaiseInScope(e, "TypeError")
    /\ UNCHANGED << executor_pod_queue_target_length, restore_call, loop, parse_call, kubectl_call,
                    storage_tasks, front, poolVars, cluster, file_storage,
                    yielded, faults >>

\* the caller cancels the task of the call while it is suspended. Inside the
\* scope of executor_pod the CancelledError runs the finally (line 264);
\* inside spawn_executor_pod (line 256) it leaves executor_pod before the
\* try; during the wait between two attempts the call holds no pod
ExecuteCancel(e) ==
    /\ tasks[e].pc \in InScope \cup {"spawn", "backoff"}
    /\ IF tasks[e].pc \in InScope
       THEN /\ delete_tasks' = ScheduledDeletes(delete_tasks, tasks[e].pod, "cancel")
            /\ released' = ScheduledDeletes(released, tasks[e].pod, "cancel")
       ELSE UNCHANGED << delete_tasks, released >>
    /\ tasks' = [tasks EXCEPT ![e] =
          [@ EXCEPT !.pc = "cancelled", !.error = "CancelledError",
                    !.pod = NoPod, !.spawn = NoSpawn]]
    /\ UNCHANGED << executor_pod_queue_target_length, restore_call, loop, parse_call, kubectl_call,
                    storage_tasks, front, poolVars, cluster, file_storage,
                    yielded, faults >>

----------------------------------------------------------------------------
(* Storage (storage.py): the writer scope and the reader, step by step.    *)
(* The directory is file_storage; a file is its name and its bytes. Every  *)
(* await of an anyio.Path or AsyncFile method is one step.                  *)

\* the byte values of the model, and the byte strings a caller may write
ByteValues == {"1", "2"}
ByteStrings == UNION {[1 .. n -> ByteValues] : n \in 0 .. MaxLen}

\* the callers of Storage.writer and of Storage.read
Writers == {"w1", "w2"}
Readers == {"r1"}

\* hashlib.sha256(b).hexdigest() (lines 58, 64-65): a lowercase hex string
\* that depends on the whole byte string and is different for different
\* byte strings; never the empty string
RECURSIVE HexDigest(_)
HexDigest(b) ==
    IF b = << >> THEN "e"
    ELSE HexDigest(SubSeq(b, 1, Len(b) - 1)) \o (IF b[Len(b)] = "1" THEN "a" ELSE "b")

\* the object hashes a caller may ask for: the digests and the empty string
ObjectHashes == {HexDigest(b) : b \in ByteStrings} \cup {""}

\* a writer that hashes only the last chunk it was given
HashUpdateLastChunk(acc, data) == data

\* _AsyncFileWrapper.write, line 61: self._hash.update(data)
HashUpdate(acc, data) == acc \o data

\* one temporary name for all writers
TmpNameShared(w) == "tmp-0"

\* line 68: tmp-<secrets.token_hex(32)>, a name no other scope has
TmpName(w) == "tmp-" \o w

\* tmp_file.open("wb") (line 71): the file is created, or truncated
OpenForWriting(dir, name) ==
    [n \in DOMAIN dir \cup {name} |-> IF n = name THEN << >> ELSE dir[n]]

\* self._file.write(data) (line 62) on the file of that name
WriteFile(dir, name, data) ==
    IF name \in DOMAIN dir THEN [dir EXCEPT ![name] = @ \o data] ELSE dir

\* tmp_file.rename(final_file) (line 77): the name dst now denotes the file
\* that src denoted, whatever dst denoted before; src is gone
Rename(dir, src, dst) ==
    [n \in (DOMAIN dir \ {src}) \cup {dst} |->
        IF n = dst THEN dir[src] ELSE dir[n]]

\* a finally that leaves the temporary file where it is
UnlinkNothing(dir, name) == dir

\* lines 79-80: tmp_file.unlink() if tmp_file.exists()
UnlinkIfExists(dir, name) == [n \in DOMAIN dir \ {name} |-> dir[n]]

\* a scope that goes on to the rename whether or not its body raised
AfterScopeAlwaysCommit(raised) == "exists"

\* lines 70-78: where the generator goes when the body of the scope is left:
\* an exception passes through the try to the finally, a normal exit goes on
\* with lines 74-76
AfterScope(raised) == IF raised THEN "finally" ELSE "exists"

IdleWriter ==
    [pc |-> "idle", data |-> << >>, left |-> << >>, hash |-> << >>,
     writes |-> 0, ret |-> "", final_name |-> "", renamed |-> FALSE,
     raised |-> FALSE]

\* lines 67-73: the temporary file is opened and the wrapper yielded; the
\* caller has the bytes data to write
WriterEnter(w) ==
    /\ storage_tasks[w].pc = "idle"
    /\ \E data \in ByteStrings :
          storage_tasks' = [storage_tasks EXCEPT ![w] =
              [@ EXCEPT !.pc = "scope", !.data = data, !.left = data]]
    /\ file_storage' = OpenForWriting(file_storage, TmpName(w))
    /\ UNCHANGED << executor_pod_queue_target_length, restore_call, loop, parse_call, kubectl_call,
                    front, poolVars, cluster, delete_tasks, tasks, yielded,
                    released, faults >>

\* lines 60-62: the caller writes the next chunk, of any size
WriterWrite(w) ==
    /\ storage_tasks[w].pc = "scope"
    /\ \E n \in 1 .. Len(storage_tasks[w].left) :
          LET chunk == SubSeq(storage_tasks[w].left, 1, n) IN
          /\ storage_tasks' = [storage_tasks EXCEPT ![w] =
                [@ EXCEPT !.hash = HashUpdate(@, chunk),
                          !.left = SubSeq(@, n + 1, Len(@)),
                          !.writes = @ + 1]]
          /\ file_storage' = WriteFile(file_storage, TmpName(w), chunk)
    /\ UNCHANGED << executor_pod_queue_target_length, restore_call, loop, parse_call, kubectl_call,
                    front, poolVars, cluster, delete_tasks, tasks, yielded,
                    released, faults >>

\* the body of the scope raises (a download that fails mid-stream, a
\* cancellation): the file is closed and the exception goes to the finally
WriterRaise(w) ==
    /\ storage_tasks[w].pc = "scope"
    /\ faults > 0
    /\ faults' = faults - 1
    /\ storage_tasks' = [storage_tasks EXCEPT ![w] =
          [@ EXCEPT !.pc = AfterScope(TRUE), !.raised = TRUE]]
    /\ UNCHANGED << executor_pod_queue_target_length, restore_call, loop, parse_call, kubectl_call,
                    front, poolVars, cluster, delete_tasks, tasks,
                    file_storage, yielded, released >>

\* line 73, and line 88 for Storage.write: the caller has written
\* everything, takes f.hash() and leaves the scope; the file is closed
WriterExit(w) ==
    /\ storage_tasks[w].pc = "scope"
    /\ storage_tasks[w].left = << >>
    /\ storage_tasks' = [storage_tasks EXCEPT ![w] =
          [@ EXCEPT !.pc = AfterScope(FALSE),
                    !.ret = HexDigest(storage_tasks[w].hash)]]
    /\ UNCHANGED << executor_pod_queue_target_length, restore_call, loop, parse_call, kubectl_call,
                    front, poolVars, cluster, delete_tasks, tasks,
                    file_storage, yielded, released, faults >>

\* lines 74-76: final_name is the digest of what was hashed, and the
\* directory is asked whether a file of that name exists
WriterCheckFinal(w) ==
    /\ storage_tasks[w].pc = "exists"
    /\ LET final_name == HexDigest(storage_tasks[w].hash) IN
       storage_tasks' = [storage_tasks EXCEPT ![w] =
          [@ EXCEPT !.final_name = final_name,
                    !.pc = IF StorageExists(file_storage, final_name)
                           THEN "finally" ELSE "rename"]]
    /\ UNCHANGED << executor_pod_queue_target_length, restore_call, loop, parse_call, kubectl_call,
                    front, poolVars, cluster, delete_tasks, tasks,
                    file_storage, yielded, released, faults >>

\* line 77: the rename; of a temporary file that is no longer there it
\* raises FileNotFoundError
WriterRename(w) ==
    /\ storage_tasks[w].pc = "rename"
    /\ IF StorageExists(file_storage, TmpName(w))
       THEN /\ file_storage' =
                  Rename(file_storage, TmpName(w), storage_tasks[w].final_name)
            /\ storage_tasks' = [storage_tasks EXCEPT ![w] =
                  [@ EXCEPT !.pc = "finally", !.renamed = TRUE]]
       ELSE /\ storage_tasks' = [storage_tasks EXCEPT ![w] =
                  [@ EXCEPT !.pc = "finally", !.raised = TRUE]]
            /\ UNCHANGED file_storage
    /\ UNCHANGED << executor_pod_queue_target_length, restore_call, loop, parse_call, kubectl_call,
                    front, poolVars, cluster, delete_tasks, tasks, yielded,
                    released, faults >>

\* lines 78-80: the finally; the scope is then over, with the exception of
\* its body if there was one
WriterFinally(w) ==
    /\ storage_tasks[w].pc = "finally"
    /\ file_storage' = UnlinkIfExists(file_storage, TmpName(w))
    /\ storage_tasks' = [storage_tasks EXCEPT ![w].pc =
          IF storage_tasks[w].raised THEN "failed" ELSE "done"]
    /\ UNCHANGED << executor_pod_queue_target_length, restore_call, loop, parse_call, kubectl_call,
                    front, poolVars, cluster, delete_tasks, tasks, yielded,
                    released, faults >>

\* a reader that does not test the hash for emptiness
NotObjectHashNever(h) == FALSE

\* line 97: `not object_hash`, true of the empty string
NotObjectHash(h) == h = ""

\* (self.storage_path / object_hash).exists() (lines 97, 115): with the
\* empty string the path is the storage directory itself
PathExists(dir, h) == h = "" \/ StorageExists(dir, h)

IdleReader ==
    [pc |-> "idle", hash |-> "", handle |-> << >>, ret |-> << >>,
     error |-> "None"]

\* the hashes a reader asks for: the empty string, the digests of the bytes
\* the writers have, and the digest of the empty byte string, which stands
\* for every hash that names no bytes of any writer (they are interchangeable)
RequestedHashes ==
    {"", HexDigest(<< >>)} \cup {HexDigest(storage_tasks[w].data) : w \in Writers}

\* lines 96-98, to the first await: reader(object_hash) is entered; an empty
\* hash raises FileNotFoundError at once
ReaderCall(r) ==
    /\ storage_tasks[r].pc = "idle"
    /\ \E h \in RequestedHashes :
          storage_tasks' = [storage_tasks EXCEPT ![r] =
              IF NotObjectHash(h)
              THEN [@ EXCEPT !.pc = "failed", !.hash = h,
                             !.error = "FileNotFoundError"]
              ELSE [@ EXCEPT !.pc = "exists", !.hash = h]]
    /\ UNCHANGED << executor_pod_queue_target_length, restore_call, loop, parse_call, kubectl_call,
                    front, poolVars, cluster, delete_tasks, tasks,
                    file_storage, yielded, released, faults >>

\* lines 97-98: the answer of target_file.exists()
ReaderCheck(r) ==
    /\ storage_tasks[r].pc = "exists"
    /\ storage_tasks' = [storage_tasks EXCEPT ![r] =
          IF PathExists(file_storage, storage_tasks[r].hash)
          THEN [@ EXCEPT !.pc = "open"]
          ELSE [@ EXCEPT !.pc = "failed", !.error = "FileNotFoundError"]]
    /\ UNCHANGED << executor_pod_queue_target_length, restore_call, loop, parse_call, kubectl_call,
                    front, poolVars, cluster, delete_tasks, tasks,
                    file_storage, yielded, released, faults >>

\* lines 99-100: target_file.open("rb") and the yield of the handle, which
\* from then on denotes the file the name denoted when it was opened
ReaderOpen(r) ==
    /\ storage_tasks[r].pc = "open"
    /\ storage_tasks' = [storage_tasks EXCEPT ![r] =
          IF StorageExists(file_storage, storage_tasks[r].hash)
          THEN [@ EXCEPT !.pc = "read",
                         !.handle = file_storage[storage_tasks[r].hash]]
          ELSE [@ EXCEPT !.pc = "failed",
                         !.error = IF storage_tasks[r].hash = ""
                                   THEN "IsADirectoryError"
                                   ELSE "FileNotFoundError"]]
    /\ UNCHANGED << executor_pod_queue_target_length, restore_call, loop, parse_call, kubectl_call,
                    front, poolVars, cluster, delete_tasks, tasks,
                    file_storage, yielded, released, faults >>

\* line 108: Storage.read returns f.read(), all the bytes of the file
ReaderRead(r) ==
    /\ storage_tasks[r].pc = "read"
    /\ storage_tasks' = [storage_tasks EXCEPT ![r] =
          [@ EXCEPT !.pc = "done", !.ret = storage_tasks[r].handle]]
    /\ UNCHANGED << executor_pod_queue_target_length, restore_call, loop, parse_call, kubectl_call,
                    front, poolVars, cluster, delete_tasks, tasks,
                    file_storage, yielded, released, faults >>

----------------------------------------------------------------------------
(* The front-ends (http_server.py, code_interpreter_servicer.py) and        *)
(* CustomToolExecutor.execute (custom_tool_executor.py)                     *)

\* a text is a sequence of tokens; "\n" is the newline print() appends
Strip(text) == SelectSeq(text, LAMBDA t : t # "\n")

\* the JSON documents of the scenarios: a number, and the object of the
\* tool's keyword arguments
JsonNumbers == {"3"}
JsonObjects == {"{\"a\": 1, \"b\": 2}"}

DecodeError == [type |-> "JSONDecodeError", text |-> << >>]

\* json.loads: surrounding whitespace is skipped, the document becomes a
\* python value, anything else raises JSONDecodeError
JsonLoads(text) ==
    LET doc == Strip(text) IN
    IF Len(doc) = 1 /\ doc[1] \in JsonNumbers
    THEN [type |-> "int", text |-> doc]
    ELSE IF Len(doc) = 1 /\ doc[1] \in JsonObjects
    THEN [type |-> "dict", text |-> doc]
    ELSE IF Len(doc) = 3 /\ doc[1] = "\"" /\ doc[3] = "\""
    THEN [type |-> "str", text |-> << doc[2] >>]
    ELSE DecodeError

\* json.dumps: the document of a python value, without a newline
JsonDumps(value) ==
    IF value.type = "str"
    THEN << "\"" >> \o value.text \o << "\"" >>
    ELSE value.text

\* pydantic's validate_call binding keyword arguments to a signature: every
\* required parameter is given and no other keyword is
ValidateCall(keywords, parameters, required) ==
    required \subseteq keywords /\ keywords \subseteq parameters

\* the signature of KubernetesCodeExecutor.execute
ExecuteParameters == {"source_code", "files"}
ExecuteRequired == {"source_code"}

\* the signature of CustomToolExecutor.execute
ToolExecuteParameters == {"tool_source_code", "tool_input"}

\* what a call returned or raised, and the call it made on the engine
Returned(value, call) ==
    [kind |-> "return", value |-> value, error |-> "none", call |-> call]
Raised(error, detail, call) ==
    [kind |-> "raise", value |-> detail, error |-> error, call |-> call]

NoCall == [made |-> FALSE, files |-> EmptyMap]
EngineCall(files) == [made |-> TRUE, files |-> files]

\* KubernetesCodeExecutor.execute as a front-end sees it: the keywords are
\* bound first, then the sandbox run gives a Result or the attempts end in
\* an error
CodeExecute(keywords, files, engine) ==
    IF ~ValidateCall(keywords, ExecuteParameters, ExecuteRequired)
    THEN Raised("ValidationError", << >>, NoCall)
    ELSE IF engine.kind = "raise"
    THEN Raised(engine.error, << >>, EngineCall(files))
    ELSE Returned(engine.result, EngineCall(files))

ExitFailedNever(result) == FALSE

ExitFailed(result) == result.exit_code # 0

\* CustomToolExecutor.execute: the driver is submitted with source_code
\* alone, so files is its default, the empty mapping
ToolExecute(keywords, tool_input, source_ok, engine) ==
    IF \/ ~ValidateCall(keywords, ToolExecuteParameters, ToolExecuteParameters)
       \/ ("tool_input" \in keywords /\ tool_input.type # "dict")
    THEN Raised("ValidationError", << >>, NoCall)
    ELSE IF ~source_ok
    THEN Raised("SyntaxError", << >>, NoCall)
    ELSE LET run == CodeExecute({"source_code"}, EmptyMap, engine) IN
         IF run.kind = "raise" THEN run
         ELSE IF ExitFailed(run.value)
         THEN Raised("CustomToolExecuteError", run.value.stderr, run.call)
         ELSE LET value == JsonLoads(run.value.stdout) IN
              IF value = DecodeError
              THEN Raised("JSONDecodeError", << >>, run.call)
              ELSE Returned(value, run.call)

\* CustomToolExecutor.parse as a front-end sees it: a CustomTool, a
\* CustomToolParseError with its messages, or another error
ParseOutcomes ==
    { Returned([name |-> "adding_tool"], NoCall),
      Raised("CustomToolParseError", << "Syntax error" >>, NoCall),
      Raised("ValueError", << >>, NoCall) }

\* a Result of the engine (kubernetes_code_executor.py, Result)
Result(stdout, stderr, exit_code, files) ==
    [stdout |-> stdout, stderr |-> stderr, exit_code |-> exit_code,
     files |-> files]

\* what the engine does with a submitted program: a Result, or an error when
\* the attempts of the retry wrapper are used up or an error is not retried
EngineOutcomes ==
    { [kind |-> "result", error |-> "none",
       result |-> Result(<< "3", "\n" >>, << >>, 0, EmptyMap)],
      [kind |-> "result", error |-> "none",
       result |-> Result(<< "\"", "ok", "\"", "\n" >>, << >>, 0,
                         [p \in {"/workspace/a"} |-> "h1"])],
      [kind |-> "result", error |-> "none",
       result |-> Result(<< "The Zen of Python", "\n", "3", "\n" >>, << >>, 0,
                         EmptyMap)],
      [kind |-> "result", error |-> "none",
       result |-> Result(<< >>, << "ZeroDivisionError: division by zero" >>,
                         1, EmptyMap)],
      [kind |-> "raise", error |-> "RetryError",
       result |-> Result(<< >>, << >>, 0, EmptyMap)] }

\* the requests a client sends; a field an operation does not read keeps one
\* value
FrontRequests ==
    [op : {"execute"},
     files : {EmptyMap, [p \in {"/workspace/a"} |-> "h1"]},
     env : {EmptyMap, [k \in {"KEY"} |-> "value"]},
     tool_input_json : {<< >>}, source_ok : {TRUE},
     parse : {Returned([name |-> "adding_tool"], NoCall)},
     engine : EngineOutcomes]
    \cup
    [op : {"parse"}, files : {EmptyMap}, env : {EmptyMap},
     tool_input_json : {<< >>}, source_ok : {TRUE},
     parse : ParseOutcomes, engine : {CHOOSE e \in EngineOutcomes : TRUE}]
    \cup
    [op : {"execute_tool"}, files : {EmptyMap},
     env : {EmptyMap, [k \in {"KEY"} |-> "value"]},
     tool_input_json : {<< "{\"a\": 1, \"b\": 2}" >>, << "3" >>, << "{" >>},
     source_ok : BOOLEAN,
     parse : {Returned([name |-> "adding_tool"], NoCall)},
     engine : EngineOutcomes]

\* a response: the status, the variant of the body, the body
Response(status, variant, body) ==
    [status |-> status, variant |-> variant, body |-> body]

NoResponse == Response("pending", "none", EmptyMap)

\* what a front-end did with the request: the outcome of the call it made
\* and the response it gave
Handled(outcome, response) == [outcome |-> outcome, response |-> response]

NotHandled == Handled(Returned(EmptyMap, NoCall), NoResponse)

HttpHandlerAlways500(outcome) ==
    Response("500", "none", [detail |-> outcome.error])

\* the exception handlers of the HTTP application; an exception without a
\* handler ends as the server's 500
HttpExceptionHandler(outcome) ==
    IF outcome.error = "CustomToolParseError"
    THEN Response("400", "error", [error_messages |-> outcome.value])
    ELSE IF outcome.error = "CustomToolExecuteError"
    THEN Response("400", "error", [stderr |-> outcome.value])
    ELSE Response("500", "none", [detail |-> outcome.error])

\* an exception leaving a servicer method ends the call with status UNKNOWN
GrpcUnhandled(outcome) ==
    Response("UNKNOWN", "none", [detail |-> outcome.error])

\* POST /v1/execute
HttpExecute ==
    /\ front.request.op = "execute"
    /\ front.http = NotHandled
    /\ LET outcome == CodeExecute({"source_code", "files", "env"},
                                  front.request.files, front.request.engine)
       IN front' = [front EXCEPT !.http =
              IF outcome.kind = "raise"
              THEN Handled(outcome,
                           Response("500", "none", [detail |-> outcome.error]))
              ELSE Handled(outcome, Response("200", "success", outcome.value))]
    /\ UNCHANGED << executor_pod_queue_target_length, restore_call, loop, parse_call, kubectl_call,
                    storage_tasks, poolVars, cluster, delete_tasks, tasks,
                    file_storage, yielded, released, faults >>

\* POST /v1/parse-custom-tool
HttpParseCustomTool ==
    /\ front.request.op = "parse"
    /\ front.http = NotHandled
    /\ LET outcome == front.request.parse
       IN front' = [front EXCEPT !.http =
              IF outcome.kind = "raise"
              THEN Handled(outcome, HttpExceptionHandler(outcome))
              ELSE Handled(outcome,
                           Response("200", "success",
                                    [tool_name |-> outcome.value.name]))]
    /\ UNCHANGED << executor_pod_queue_target_length, restore_call, loop, parse_call, kubectl_call,
                    storage_tasks, poolVars, cluster, delete_tasks, tasks,
                    file_storage, yielded, released, faults >>

\* POST /v1/execute-custom-tool
HttpExecuteCustomTool ==
    /\ front.request.op = "execute_tool"
    /\ front.http = NotHandled
    /\ LET outcome == ToolExecute({"tool_input_json", "tool_source_code", "env"},
                                  DecodeError, front.request.source_ok,
                                  front.request.engine)
       IN front' = [front EXCEPT !.http =
              IF outcome.kind = "raise"
              THEN Handled(outcome, HttpExceptionHandler(outcome))
              ELSE Handled(outcome,
                           Response("200", "success",
                              [tool_output_json |-> JsonDumps(outcome.value)]))]
    /\ UNCHANGED << executor_pod_queue_target_length, restore_call, loop, parse_call, kubectl_call,
                    storage_tasks, poolVars, cluster, delete_tasks, tasks,
                    file_storage, yielded, released, faults >>

\* CodeInterpreterServicer.Execute
Execute ==
    /\ front.request.op = "execute"
    /\ front.grpc = NotHandled
    /\ LET outcome == CodeExecute({"source_code", "files"},
                                  front.request.files, front.request.engine)
       IN front' = [front EXCEPT !.grpc =
              IF outcome.kind = "raise"
              THEN Handled(outcome, GrpcUnhandled(outcome))
              ELSE Handled(outcome, Response("OK", "success", outcome.value))]
    /\ UNCHANGED << executor_pod_queue_target_length, restore_call, loop, parse_call, kubectl_call,
                    storage_tasks, poolVars, cluster, delete_tasks, tasks,
                    file_storage, yielded, released, faults >>

\* CodeInterpreterServicer.ParseCustomTool
ParseCustomTool ==
    /\ front.request.op = "parse"
    /\ front.grpc = NotHandled
    /\ LET outcome == front.request.parse
       IN front' = [front EXCEPT !.grpc =
              IF outcome.error = "CustomToolParseError"
              THEN Handled(outcome,
                           Response("OK", "error",
                                    [error_messages |-> outcome.value]))
              ELSE IF outcome.kind = "raise"
              THEN Handled(outcome, GrpcUnhandled(outcome))
              ELSE Handled(outcome,
                           Response("OK", "success",
                                    [tool_name |-> outcome.value.name]))]
    /\ UNCHANGED << executor_pod_queue_target_length, restore_call, loop, parse_call, kubectl_call,
                    storage_tasks, poolVars, cluster, delete_tasks, tasks,
                    file_storage, yielded, released, faults >>

\* CodeInterpreterServicer.ExecuteCustomTool
ExecuteCustomTool ==
    /\ front.request.op = "execute_tool"
    /\ front.grpc = NotHandled
    /\ LET tool_input == JsonLoads(front.request.tool_input_json)
           outcome ==
               IF tool_input = DecodeError
               THEN Raised("JSONDecodeError", << >>, NoCall)
               ELSE ToolExecute({"tool_input", "tool_source_code"}, tool_input,
                                front.request.source_ok, front.request.engine)
       IN front' = [front EXCEPT !.grpc =
              IF outcome.error = "CustomToolExecuteError"
              THEN Handled(outcome,
                           Response("OK", "error", [stderr |-> outcome.value]))
              ELSE IF outcome.kind = "raise"
              THEN Handled(outcome, GrpcUnhandled(outcome))
              ELSE Handled(outcome,
                           Response("OK", "success",
                              [tool_output_json |-> JsonDumps(outcome.value)]))]
    /\ UNCHANGED << executor_pod_queue_target_length, restore_call, loop, parse_call, kubectl_call,
                    storage_tasks, poolVars, cluster, delete_tasks, tasks,
                    file_storage, yielded, released, faults >>

----------------------------------------------------------------------------
(* CustomToolExecutor.parse (custom_tool_executor.py): the syntax tree of   *)
(* a tool source and the schema made from it                                *)

\* the nodes of an annotation, as ast.parse builds them
Name(id) == [node |-> "Name", id |-> id]
Attribute(value, attr) == [node |-> "Attribute", value |-> value, attr |-> attr]
Subscript(value, slice) == [node |-> "Subscript", value |-> value, slice |-> slice]
Tuple(elts) == [node |-> "Tuple", elts |-> elts]
Constant(value) == [node |-> "Constant", value |-> value]

\* a parameter without annotation, a keyword-only parameter without default
None == [node |-> "None"]

RECURSIVE Unparse(_)
RECURSIVE UnparseElts(_)

\* the elements of a tuple, separated by commas
UnparseElts(elts) ==
    IF Len(elts) = 0 THEN ""
    ELSE IF Len(elts) = 1 THEN Unparse(elts[1])
    ELSE Unparse(elts[1]) \o ", " \o UnparseElts(Tail(elts))

\* ast.unparse: the text of a node; the tuple of a subscript is written
\* without parentheses
Unparse(n) ==
    IF n.node = "Name" THEN n.id
    ELSE IF n.node = "Attribute" THEN Unparse(n.value) \o "." \o n.attr
    ELSE IF n.node = "Constant" THEN n.value
    ELSE IF n.node = "Tuple" THEN "(" \o UnparseElts(n.elts) \o ")"
    ELSE IF n.slice.node = "Tuple"
    THEN Unparse(n.value) \o "[" \o UnparseElts(n.slice.elts) \o "]"
    ELSE Unparse(n.value) \o "[" \o Unparse(n.slice) \o "]"

\* the statements of the top level
Import(name, asname) ==
    [stmt |-> "Import", module |-> "", name |-> name, asname |-> asname,
     args |-> << >>]
ImportFrom(module, name, asname) ==
    [stmt |-> "ImportFrom", module |-> module, name |-> name,
     asname |-> asname, args |-> << >>]
FunctionDef(name, args) ==
    [stmt |-> "FunctionDef", module |-> "", name |-> name, asname |-> "",
     args |-> args]
OtherStatement(stmt) ==
    [stmt |-> stmt, module |-> "", name |-> "", asname |-> "", args |-> << >>]

\* one parameter, and the arguments node of a function definition
Arg(arg, annotation) == [arg |-> arg, annotation |-> annotation]

Arguments(posonlyargs, args, vararg, kwonlyargs, kw_defaults, kwarg, defaults) ==
    [posonlyargs |-> posonlyargs, args |-> args, vararg |-> vararg,
     kwonlyargs |-> kwonlyargs, kw_defaults |-> kw_defaults, kwarg |-> kwarg,
     defaults |-> defaults]

RECURSIVE ImportAliases(_)
RECURSIVE ImportFromAliases(_)

\* {asname: "typing"} of every "import typing as asname", a later import
\* replacing an earlier one of the same key
ImportAliases(imports) ==
    IF imports = << >> THEN EmptyMap
    ELSE LET last == imports[Len(imports)]
             rest == ImportAliases(SubSeq(imports, 1, Len(imports) - 1))
         IN IF last.stmt = "Import" /\ last.name = "typing" /\ last.asname # ""
            THEN (last.asname :> last.name) @@ rest
            ELSE rest

\* {asname or name: "typing." + name} of every "from typing import name"
ImportFromAliases(imports) ==
    IF imports = << >> THEN EmptyMap
    ELSE LET last == imports[Len(imports)]
             rest == ImportFromAliases(SubSeq(imports, 1, Len(imports) - 1))
         IN IF last.stmt = "ImportFrom" /\ last.module = "typing"
            THEN ((IF last.asname # "" THEN last.asname ELSE last.name)
                      :> (last.module \o "." \o last.name)) @@ rest
            ELSE rest

\* typing_import_from_aliases: the union of the two, the second winning
TypingImportFromAliases(imports) ==
    ImportFromAliases(imports) @@ ImportAliases(imports)

\* _to_json_schema_type: the whole text is looked up in the alias map
ToJsonSchemaType(name, import_from_aliases) ==
    IF name \in DOMAIN import_from_aliases
    THEN import_from_aliases[name] ELSE name

\* a schema fragment, or the error raised while making it
Schema(value) == [raise |-> "", value |-> value]
SchemaError(kind, message) == [raise |-> kind, value |-> message]

\* the first error of a list of results, or the list of their fragments
Gathered(results) ==
    IF \E i \in DOMAIN results : results[i].raise # ""
    THEN results[CHOOSE i \in DOMAIN results :
                    /\ results[i].raise # ""
                    /\ \A j \in 1 .. (i - 1) : results[j].raise = ""]
    ELSE Schema([i \in DOMAIN results |-> results[i].value])

\* ast.literal_eval of an element of Literal[...]
LiteralEval(n) ==
    IF n.node = "Constant" THEN Schema(n.value)
    ELSE SchemaError("ValueError", "malformed node or string")

RECURSIVE TypeToJsonSchema(_, _)

\* _type_to_json_schema
TypeToJsonSchema(type_node, aliases) ==
    LET name == IF type_node.node = "Subscript"
                THEN ToJsonSchemaType(Unparse(type_node.value), aliases)
                ELSE ""
        slice == type_node.slice
        whole == ToJsonSchemaType(Unparse(type_node), aliases)
        Sub(n) == TypeToJsonSchema(n, aliases)
        Each(elts) == Gathered([i \in DOMAIN elts |-> Sub(elts[i])])
        Wrap(r, F(_)) == IF r.raise # "" THEN r ELSE Schema(F(r.value))
    IN
    IF type_node.node = "Subscript" /\ name \in {"list", "typing.List"}
    THEN Wrap(Sub(slice), LAMBDA s : [type |-> "array", items |-> s])
    ELSE IF /\ type_node.node = "Subscript"
            /\ name \in {"dict", "typing.Dict"}
            /\ slice.node = "Tuple"
    THEN IF Len(slice.elts) # 2
         THEN SchemaError("ValueError", "too many values to unpack")
         ELSE IF ToJsonSchemaType(Unparse(slice.elts[1]), aliases)
                     \notin {"str", "typing.AnyStr"}
         THEN SchemaError("ValueError",
                          "Unsupported key type for dict: "
                              \o Unparse(slice.elts[1]))
         ELSE Wrap(Sub(slice.elts[2]),
                   LAMBDA s : [type |-> "object", additionalProperties |-> s])
    ELSE IF /\ type_node.node = "Subscript"
            /\ name \in {"optional", "typing.Optional"}
    THEN Wrap(Sub(slice),
              LAMBDA s : [anyOf |-> << [type |-> "null"], s >>])
    ELSE IF /\ type_node.node = "Subscript"
            /\ name \in {"union", "typing.Union"}
            /\ slice.node = "Tuple"
    THEN Wrap(Each(slice.elts), LAMBDA s : [anyOf |-> s])
    ELSE IF /\ type_node.node = "Subscript"
            /\ name \in {"tuple", "typing.Tuple"}
            /\ slice.node = "Tuple"
    THEN Wrap(Each(slice.elts),
              LAMBDA s : [type |-> "array", minItems |-> Len(slice.elts),
                          items |-> s, additionalItems |-> FALSE])
    ELSE IF /\ type_node.node = "Subscript"
            /\ name \in {"literal", "typing.Literal", "typing.LiteralString"}
    THEN IF slice.node = "Tuple"
         THEN Wrap(Gathered([i \in DOMAIN slice.elts |->
                                 LiteralEval(slice.elts[i])]),
                   LAMBDA s : [enum |-> s])
         ELSE Wrap(LiteralEval(slice), LAMBDA s : [enum |-> << s >>])
    ELSE IF /\ type_node.node = "Subscript"
            /\ name \in {"final", "typing.Final"}
    THEN Sub(slice)
    ELSE IF /\ type_node.node = "Subscript"
            /\ name \in {"annotated", "typing.Annotated"}
    THEN IF slice.node # "Tuple"
         THEN SchemaError("AttributeError", "elts")
         ELSE Sub(slice.elts[1])
    ELSE IF whole = "int" THEN Schema([type |-> "integer"])
    ELSE IF whole = "float" THEN Schema([type |-> "number"])
    ELSE IF whole = "str" THEN Schema([type |-> "string"])
    ELSE IF whole = "bool" THEN Schema([type |-> "boolean"])
    ELSE IF whole = "any" THEN Schema([type |-> "array"])
    ELSE SchemaError("ValueError", "Unsupported type: " \o whole)

\* the messages of CustomToolParseError
SingleFunctionMessage ==
    "The tool source code must only define a single function, optionally preceded by imports."
PosonlyMessage == "The tool function must not have positional-only arguments"
VarargMessage == "The tool function must not have *args"
KwargMessage == "The tool function must not have **kwargs"
AnnotationMessage == "The tool function arguments must have type annotations"

\* the text of a source: whether ast.parse accepts it, and the body of the
\* module it gives; the sources here have no docstring
Source(syntax_ok, body) == [syntax_ok |-> syntax_ok, body |-> body]

\* the parameters that parse looks at for annotations and properties
AnnotatedArgs(args) == args.args \o args.kwonlyargs

SignatureErrorsFirstOnly(args) ==
    IF args.posonlyargs # << >> THEN << PosonlyMessage >>
    ELSE IF args.vararg # None THEN << VarargMessage >>
    ELSE IF args.kwarg # None THEN << KwargMessage >>
    ELSE IF \E i \in DOMAIN AnnotatedArgs(args) :
                AnnotatedArgs(args)[i].annotation = None
    THEN << AnnotationMessage >>
    ELSE << >>

\* the list of the violated rules
SignatureErrors(args) ==
    (IF args.posonlyargs # << >> THEN << PosonlyMessage >> ELSE << >>)
    \o (IF args.vararg # None THEN << VarargMessage >> ELSE << >>)
    \o (IF args.kwarg # None THEN << KwargMessage >> ELSE << >>)
    \o (IF \E i \in DOMAIN AnnotatedArgs(args) :
               AnnotatedArgs(args)[i].annotation = None
        THEN << AnnotationMessage >> ELSE << >>)

RequiredAllArgs(args) ==
    [i \in DOMAIN AnnotatedArgs(args) |-> AnnotatedArgs(args)[i].arg]

\* "required": args[: -len(defaults) or None], then the keyword-only
\* parameters whose kw_defaults entry is None
Required(args) ==
    LET positional ==
            IF Len(args.defaults) = 0 THEN args.args
            ELSE SubSeq(args.args, 1, Len(args.args) - Len(args.defaults))
        keyword ==
            SelectSeq([i \in DOMAIN args.kwonlyargs |->
                           [arg |-> args.kwonlyargs[i],
                            default |-> args.kw_defaults[i]]],
                      LAMBDA z : z.default = None)
    IN [i \in DOMAIN positional |-> positional[i].arg]
           \o [i \in DOMAIN keyword |-> keyword[i].arg.arg]

\* "properties": one fragment per annotated parameter, or the first error
Properties(args, aliases) ==
    LET annotated == SelectSeq(AnnotatedArgs(args),
                               LAMBDA a : a.annotation # None)
        results == [i \in DOMAIN annotated |->
                        TypeToJsonSchema(annotated[i].annotation, aliases)]
    IN IF Gathered(results).raise # "" THEN Gathered(results)
       ELSE Schema([a \in {annotated[i].arg : i \in DOMAIN annotated} |->
                       LET i == CHOOSE i \in DOMAIN annotated :
                                    /\ annotated[i].arg = a
                                    /\ \A j \in DOMAIN annotated :
                                           annotated[j].arg = a => j <= i
                       IN results[i].value])

\* CustomToolExecutor.parse
Parse(source) ==
    IF ~source.syntax_ok
    THEN Raised("CustomToolParseError", << "Syntax error" >>, NoCall)
    ELSE IF source.body = << >>
    THEN Raised("ValueError", << "not enough values to unpack" >>, NoCall)
    ELSE
    LET imports == SubSeq(source.body, 1, Len(source.body) - 1)
        function_def == source.body[Len(source.body)]
        aliases == TypingImportFromAliases(imports)
        errors == SignatureErrors(function_def.args)
        properties == Properties(function_def.args, aliases)
    IN
    IF \/ \E i \in DOMAIN imports :
              imports[i].stmt \notin {"Import", "ImportFrom"}
       \/ function_def.stmt # "FunctionDef"
    THEN Raised("CustomToolParseError", << SingleFunctionMessage >>, NoCall)
    ELSE IF errors # << >>
    THEN Raised("CustomToolParseError", errors, NoCall)
    ELSE IF properties.raise # ""
    THEN Raised(properties.raise, << properties.value >>, NoCall)
    ELSE Returned([name |-> function_def.name,
                   input_schema |->
                       [type |-> "object", title |-> function_def.name,
                        properties |-> properties.value,
                        required |-> Required(function_def.args),
                        additionalProperties |-> FALSE]],
                  NoCall)

\* the sequences over S of length at most n
SeqsUpTo(S, n) == UNION {[1 .. k -> S] : k \in 0 .. n}

\* sources by the shape of their top level: every sequence of at most
\* MaxStmts statements, and a text that is not Python
ShapeStatements ==
    { Import("typing", ""),
      FunctionDef("my_tool",
                  Arguments(<< >>, << Arg("a", Name("int")) >>, None, << >>,
                            << >>, None, << >>)),
      OtherStatement("Assign"),
      OtherStatement("AsyncFunctionDef") }

ShapeSources ==
    {Source(TRUE, body) : body \in SeqsUpTo(ShapeStatements, MaxStmts)}
        \cup {Source(FALSE, << >>)}

\* the parameters of one kind, at most n of them: named by position,
\* annotated or not
ParamLists(n) ==
    UNION {[1 .. k -> {None, Name("int")}] : k \in 0 .. n}

Named(prefix, annotations) ==
    [i \in DOMAIN annotations |-> Arg(prefix[i], annotations[i])]

ParamNames == << "a", "b", "c", "d" >>
KwonlyNames == << "k", "l", "m", "n" >>

\* sources by signature: one function, every combination of parameter kinds,
\* annotations and defaults, with at most n parameters of one kind
Signatures(n) ==
    UNION { UNION {
        [posonlyargs : {<< >>, << Arg("p", None) >>,
                        << Arg("p", Name("int")) >>},
         args : {Named(ParamNames, as)},
         vararg : {None, Arg("args", None), Arg("args", Name("int"))},
         kwonlyargs : {Named(KwonlyNames, ks)},
         kw_defaults : [DOMAIN ks -> {None, Constant("1")}],
         kwarg : {None, Arg("kwargs", None)},
         defaults : {[i \in 1 .. d |-> Constant("1")] : d \in 0 .. Len(as)}]
        : ks \in ParamLists(n) } : as \in ParamLists(n) }

SignatureSources(n) ==
    {Source(TRUE, << FunctionDef("my_tool", args) >>) :
         args \in Signatures(n)}

\* annotations: the plain names, and every form around a smaller annotation
AtomNodes ==
    { Name("int"), Name("float"), Name("str"), Name("bool"), Name("Any"),
      Attribute(Name("typing"), "Any"), Name("bytes"),
      Subscript(Attribute(Name("typing"), "Literal"), Constant("'x'")) }

WrappedNodes(t) ==
    { Subscript(Name("list"), t),
      Subscript(Name("dict"), Tuple(<< Name("str"), t >>)),
      Subscript(Name("dict"), Tuple(<< Name("int"), t >>)),
      Subscript(Name("Optional"), t),
      Subscript(Attribute(Name("typing"), "Optional"), t),
      Subscript(Attribute(Name("X"), "Optional"), t),
      Subscript(Name("O"), t),
      Subscript(Attribute(Name("typing"), "Tuple"), Tuple(<< t, Name("str") >>)),
      Subscript(Attribute(Name("typing"), "Union"), Tuple(<< Name("int"), t >>)) }

RECURSIVE TypeNodes(_)

TypeNodes(depth) ==
    IF depth = 0 THEN AtomNodes
    ELSE TypeNodes(depth - 1)
             \cup UNION {WrappedNodes(t) : t \in TypeNodes(depth - 1)}

\* the import prologues
Prologues ==
    { << >>,
      << Import("typing", "") >>,
      << Import("typing", "X") >>,
      << ImportFrom("typing", "Optional", "") >>,
      << ImportFrom("typing", "Optional", "O") >>,
      << ImportFrom("typing", "Any", "") >> }

OneParameter(annotation) ==
    Arguments(<< >>, << Arg("a", annotation) >>, None, << >>, << >>, None,
              << >>)

AnnotationSources(depth) ==
    {Source(TRUE, prologue \o << FunctionDef("my_tool", OneParameter(t)) >>) :
         prologue \in Prologues, t \in TypeNodes(depth)}

\* the source of test_parse_custom_tool_success, without its docstring:
\* def my_tool(a: int, b: typing.Tuple[Optional[str], str] = ("hello",
\* "world"), *, c: typing.Union[list[str], dict[str,
\* typing.Optional[float]]]) -> int
RichSignatureSource ==
    Source(TRUE, << FunctionDef("my_tool",
        Arguments(<< >>,
                  << Arg("a", Name("int")),
                     Arg("b", Subscript(Attribute(Name("typing"), "Tuple"),
                                 Tuple(<< Subscript(Name("Optional"),
                                                    Name("str")),
                                          Name("str") >>))) >>,
                  None,
                  << Arg("c", Subscript(Attribute(Name("typing"), "Union"),
                        Tuple(<< Subscript(Name("list"), Name("str")),
                                 Subscript(Name("dict"),
                                     Tuple(<< Name("str"),
                                              Subscript(Attribute(
                                                  Name("typing"), "Optional"),
                                                  Name("float")) >>)) >>))) >>,
                  << None >>, None,
                  << Constant("('hello', 'world')") >>)) >>)

NotParsed == Returned(EmptyMap, NoCall)

\* a front-end has called parse(source) and parse has not run yet
Called(source) == [source |-> source, pc |-> "called", outcome |-> NotParsed]

\* parse(tool_source_code)
ParseCall ==
    /\ parse_call.pc = "called"
    /\ parse_call' = [parse_call EXCEPT !.pc = "done",
                                        !.outcome = Parse(parse_call.source)]
    /\ UNCHANGED << executor_pod_queue_target_length, restore_call, loop, kubectl_call,
                    storage_tasks, front, poolVars, cluster, delete_tasks,
                    tasks, file_storage, yielded, released, faults >>

----------------------------------------------------------------------------
(* The Kubectl adapter (kubectl.py): the command line of a call             *)

\* the values of keyword arguments; text is what an f-string makes of them
PyTrue == [kind |-> "bool", text |-> "True"]
PyFalse == [kind |-> "bool", text |-> "False"]
PyNone == [kind |-> "none", text |-> "None"]
PyInt(text) == [kind |-> "int", text |-> text]
PyStr(text) == [kind |-> "str", text |-> text]

\* the truth value of "if value"
Truthy(value) ==
    /\ value # PyNone
    /\ value # PyFalse
    /\ value # PyInt("0")
    /\ value # PyStr("")

\* a word is a sequence of tokens, "_" and "-" being tokens of their own:
\* grace_period is << "grace", "_", "period" >>
Word(token) == << token >>

ReplaceUnderscore(word) ==
    [i \in DOMAIN word |-> IF word[i] = "_" THEN "-" ELSE word[i]]

\* key.removeprefix("_")
RemovePrefix(key) == IF key # << >> /\ key[1] = "_" THEN Tail(key) ELSE key

\* a dict in insertion order: a sequence of items with distinct keys
Item(key, value) == [key |-> key, value |-> value]

Keys(dict) == {dict[i].key : i \in DOMAIN dict}

\* d[key] = value: a key already present keeps its place
DictSet(dict, key, value) ==
    IF key \in Keys(dict)
    THEN [i \in DOMAIN dict |->
             IF dict[i].key = key THEN Item(key, value) ELSE dict[i]]
    ELSE Append(dict, Item(key, value))

RECURSIVE DictOf(_)

\* the dict built from items in order
DictOf(items) ==
    IF items = << >> THEN << >>
    ELSE DictSet(DictOf(SubSeq(items, 1, Len(items) - 1)),
                 items[Len(items)].key, items[Len(items)].value)

\* a | b
DictUnion(a, b) == DictOf(a \o b)

\* _fix_kwargs: {key.removeprefix("_"): value ... if value}
FixKwargs(kwargs) ==
    DictOf(SelectSeq([i \in DOMAIN kwargs |->
                         Item(RemovePrefix(kwargs[i].key), kwargs[i].value)],
                     LAMBDA item : Truthy(item.value)))

\* f"--{key}={value}" if value is not True else f"--{key}"
Flag(item) ==
    IF item.value # PyTrue
    THEN << "--" >> \o item.key \o << "=", item.value.text >>
    ELSE << "--" >> \o item.key

DashDash == Word("--")

\* the position of the first "--", or past the end
DashdashPosition(args) ==
    IF \E i \in DOMAIN args : args[i] = DashDash
    THEN CHOOSE i \in DOMAIN args :
             /\ args[i] = DashDash
             /\ \A j \in 1 .. (i - 1) : args[j] # DashDash
    ELSE Len(args) + 1

AllArgsFlagsLast(default_kwargs, args, kwargs) ==
    LET flags == DictUnion(default_kwargs, FixKwargs(kwargs))
    IN args \o [i \in DOMAIN flags |-> Flag(flags[i])]

\* _spawn_process: the arguments given to the kubectl binary
AllArgs(default_kwargs, args, kwargs) ==
    LET dashdash_position == DashdashPosition(args)
        flags == DictUnion(default_kwargs, FixKwargs(kwargs))
    IN SubSeq(args, 1, dashdash_position - 1)
           \o [i \in DOMAIN flags |-> Flag(flags[i])]
           \o SubSeq(args, dashdash_position, Len(args))

\* the words of positional arguments, and the keyword arguments of a call
ArgWords == {Word("pod"), Word("my-pod"), DashDash, Word("ls")}

KwargItems ==
    { Item(Word("now"), PyTrue), Item(Word("now"), PyNone),
      Item(<< "grace", "_", "period" >>, PyInt("0")),
      Item(<< "grace", "_", "period" >>, PyInt("5")),
      Item(Word("namespace"), PyStr("other")),
      Item(Word("namespace"), PyNone),
      Item(<< "_", "for" >>, PyStr("condition=Ready")) }

\* the keyword arguments of one call: distinct keys, in the order written
KwargLists ==
    {kwargs \in SeqsUpTo(KwargItems, MaxKwargs) :
         \A i, j \in DOMAIN kwargs : kwargs[i].key = kwargs[j].key => i = j}

\* Kubectl() as the application builds it, and Kubectl(namespace=...)
ConstructorKwargs ==
    { << >>, << Item(Word("namespace"), PyStr("default")) >> }

\* the sub-commands called below: one that returns text, one that returns
\* JSON
TextCommands == {Word("delete"), << "api", "_", "resources" >>}
JsonCommands == {Word("get")}

\* kubectl.<name>(*args, **kwargs) of a text command
Command(name) ==
    /\ kubectl_call.pc = "idle"
    /\ name \in TextCommands
    /\ kubectl_call' = [kubectl_call EXCEPT
          !.pc = "spawned", !.name = name,
          !.all_args = AllArgs(kubectl_call.default_kwargs,
                               << ReplaceUnderscore(name) >> \o kubectl_call.args,
                               kubectl_call.kwargs)]
    /\ UNCHANGED << executor_pod_queue_target_length, restore_call, loop, parse_call,
                    storage_tasks, front, poolVars, cluster, delete_tasks,
                    tasks, file_storage, yielded, released, faults >>

\* kubectl.<name>(*args, **kwargs) of a JSON command: output="json" is
\* passed before the caller's keyword arguments
CommandJson(name) ==
    /\ kubectl_call.pc = "idle"
    /\ name \in JsonCommands
    /\ kubectl_call' = [kubectl_call EXCEPT
          !.pc = "spawned", !.name = name,
          !.all_args = AllArgs(kubectl_call.default_kwargs,
                               << ReplaceUnderscore(name) >> \o kubectl_call.args,
                               << Item(Word("output"), PyStr("json")) >>
                                   \o kubectl_call.kwargs)]
    /\ UNCHANGED << executor_pod_queue_target_length, restore_call, loop, parse_call,
                    storage_tasks, front, poolVars, cluster, delete_tasks,
                    tasks, file_storage, yielded, released, faults >>

\* kubectl.exec_raw(*args, **kwargs)
ExecRaw ==
    /\ kubectl_call.pc = "idle"
    /\ kubectl_call' = [kubectl_call EXCEPT
          !.pc = "spawned", !.name = Word("exec"),
          !.all_args = AllArgs(kubectl_call.default_kwargs,
                               << Word("exec") >> \o kubectl_call.args,
                               kubectl_call.kwargs)]
    /\ UNCHANGED << executor_pod_queue_target_length, restore_call, loop, parse_call,
                    storage_tasks, front, poolVars, cluster, delete_tasks,
                    tasks, file_storage, yielded, released, faults >>

----------------------------------------------------------------------------
(* kubectl delete: the task created by the finally of executor_pod *)

\* the states of a pod the orchestrator has been told to delete
Deleting == {"Terminating", "Removed"}

\* kubernetes_code_executor.py line 264 and kubectl.py lines 76-96: the task
\* runs `kubectl delete pod <name>`. The orchestrator accepts the deletion
\* and the command waits for the pod to be gone; or the command exits
\* non-zero, _command raises RuntimeError and the task ends with an exception
\* nobody retrieves: the delete is not run again
DeleteSend(p) ==
    /\ p \in delete_tasks
    /\ cluster[p] \notin Deleting
    /\ \/ /\ cluster' = [cluster EXCEPT ![p] = "Terminating"]
          /\ UNCHANGED << delete_tasks, faults >>
       \/ /\ faults > 0
          /\ faults' = faults - 1
          /\ delete_tasks' = delete_tasks \ {p}
          /\ UNCHANGED cluster
    /\ UNCHANGED << executor_pod_queue_target_length, restore_call, loop, parse_call, kubectl_call,
                    storage_tasks, front, poolVars, tasks, file_storage,
                    yielded, released >>

\* the orchestrator has terminated the pod and removed it: kubectl delete
\* exits with 0 and the task ends
DeleteWait(p) ==
    /\ p \in delete_tasks
    /\ cluster[p] = "Terminating"
    /\ cluster' = [cluster EXCEPT ![p] = "Removed"]
    /\ delete_tasks' = delete_tasks \ {p}
    /\ UNCHANGED << executor_pod_queue_target_length, restore_call, loop, parse_call, kubectl_call,
                    storage_tasks, front, poolVars, tasks, file_storage,
                    yielded, released, faults >>

----------------------------------------------------------------------------
(* The event loop under concurrent fills (kubernetes_code_executor.py,     *)
(* lines 158-196 and 248-264). The spawn tasks whose kubectl wait returns  *)
(* in one iteration of the loop finish in some order; each fill suspended  *)
(* in its as_completed loop is resumed once, in the order of the first of  *)
(* its tasks to finish, and awaits all its finished tasks without being    *)
(* suspended again. Spawn tasks are named 1, 2, ... as they are created,   *)
(* and a pod bears the name of the task that spawned it.                    *)

\* a step of the event-loop scenarios: only loop changes
LoopStep(next) ==
    /\ loop' = next
    /\ UNCHANGED << executor_pod_queue_target_length, restore_call, parse_call, kubectl_call,
                    storage_tasks, front, poolVars, cluster, delete_tasks,
                    tasks, file_storage, yielded, released, faults >>

\* lines 162-182: count_to_spawn, the early return, the increment of the
\* spawning count and the creation of the spawn tasks of a new fill
LoopFillStart ==
    /\ loop.fill_scheduled > 0
    /\ LET count_to_spawn == CountToSpawn(loop.target, loop.queue,
                                          loop.spawning_count)
           created == Len(loop.owner)
       IN IF count_to_spawn <= 0
          THEN LoopStep([loop EXCEPT !.fill_scheduled = @ - 1])
          ELSE /\ created + count_to_spawn <= MaxSpawns
               /\ LoopStep([loop EXCEPT
                      !.fill_scheduled = @ - 1,
                      !.spawning_count = @ + count_to_spawn,
                      !.fills = @ + 1,
                      !.owner = @ \o [i \in 1 .. count_to_spawn |->
                                          loop.fills + 1],
                      !.todo = @ \cup (created + 1 .. created + count_to_spawn)])

\* lines 253-258: executor_pod pops the left end of the queue, or with an
\* empty queue spawns a pod of its own, and creates a fill task
LoopAcquire ==
    /\ loop.acquires < MaxAcquires
    /\ LoopStep([loop EXCEPT
           !.acquires = @ + 1,
           !.fill_scheduled = @ + 1,
           !.queue = IF @ = << >> THEN @ ELSE PopLeft(@),
           !.handed = IF loop.queue = << >> THEN @
                      ELSE Append(@, Head(loop.queue))])

\* the orders in which the spawn tasks of a non-empty subset of todo finish
\* in one iteration of the event loop
Batches(todo) ==
    {batch \in UNION {[1 .. k -> todo] : k \in 1 .. Cardinality(todo)} :
        \A i, j \in DOMAIN batch : batch[i] = batch[j] => i = j}

RECURSIVE Wakeups(_, _)

\* the fills resumed for the tasks of batch, in the order of their resumption,
\* each with the tasks it awaits before it is suspended again: the done
\* callbacks of the tasks run in the order in which the tasks finished, and
\* the first callback of a fill is the one that schedules its resumption
Wakeups(batch, owner) ==
    IF batch = << >> THEN << >>
    ELSE LET fill == owner[Head(batch)]
         IN << SelectSeq(batch, LAMBDA task : owner[task] = fill) >>
                \o Wakeups(SelectSeq(batch, LAMBDA task : owner[task] # fill),
                           owner)

\* lines 243-246 in the spawn tasks of batch: kubectl wait returns and the
\* tasks finish, in this order
LoopIteration ==
    \E batch \in Batches(loop.todo) :
        LoopStep([loop EXCEPT
            !.todo = @ \ {batch[i] : i \in DOMAIN batch},
            !.completed = @ \o batch,
            !.wakeups = @ \o Wakeups(batch, loop.owner)])

RECURSIVE QueueAfterSpawns(_, _)

\* lines 183-189, as many iterations as the resumed fill has finished tasks
QueueAfterSpawns(queue, results) ==
    IF results = << >> THEN queue
    ELSE QueueAfterSpawns(QueueAfterSpawn(queue, Head(results)), Tail(results))

\* lines 183-189: the fill that was scheduled first is resumed; it appends
\* the pods of its finished tasks and takes them off the spawning count
LoopWakeup ==
    /\ loop.wakeups # << >>
    /\ LoopStep([loop EXCEPT
           !.wakeups = Tail(@),
           !.queue = QueueAfterSpawns(@, Head(loop.wakeups)),
           !.spawning_count = @ - Len(Head(loop.wakeups)),
           !.appended = @ \o Head(loop.wakeups)])

----------------------------------------------------------------------------
(* The argument types of execute (utils/validation.py: Hash, AbsolutePath), *)
(* as the data model of the specification defines them; strings are         *)
(* sequences of characters here                                             *)

\* an object hash has 64 characters
HashLength == 64
HexChars == {"0", "1", "2", "3", "4", "5", "6", "7", "8", "9",
             "a", "b", "c", "d", "e", "f"}

\* Hash: lowercase hexadecimal SHA-256, 64 characters of [0-9a-f]
Hash(h) == Len(h) = HashLength /\ \A i \in 1 .. Len(h) : h[i] \in HexChars

WorkspacePrefix == << "/", "w", "o", "r", "k", "s", "p", "a", "c", "e", "/" >>

\* a segment of p, between two slashes or an end of the string, is ".."
HasDotDotSegment(p) ==
    \E i \in 1 .. Len(p) - 1 :
        /\ p[i] = "." /\ p[i + 1] = "."
        /\ i = 1 \/ p[i - 1] = "/"
        /\ i + 1 = Len(p) \/ p[i + 2] = "/"

\* AbsolutePath: begins with /workspace/, has no ".." segment and no NUL
AbsolutePath(p) ==
    /\ Len(p) >= Len(WorkspacePrefix)
    /\ SubSeq(p, 1, Len(WorkspacePrefix)) = WorkspacePrefix
    /\ ~HasDotDotSegment(p)
    /\ \A i \in 1 .. Len(p) : p[i] # "NUL"

\* validate_call on execute (line 78): files is a mapping from AbsolutePath
\* to Hash (source_code, any string, always validates)
ValidatesFiles(files) ==
    \A p \in DOMAIN files : AbsolutePath(p) /\ Hash(files[p])

\* the hashes a caller may pass: well-formed ones, one that is too short, one
\* that is too long, one with an upper-case digit and the empty string
HashArgs ==
    {[i \in 1 .. HashLength |-> "a"],
     [i \in 1 .. HashLength |-> IF i = 1 THEN "0" ELSE "f"],
     [i \in 1 .. HashLength - 1 |-> "a"],
     [i \in 1 .. HashLength + 1 |-> "a"],
     [i \in 1 .. HashLength |-> IF i = HashLength THEN "A" ELSE "a"],
     << >>}

\* the paths a caller may pass: workspace paths, a relative path, a path
\* outside the workspace, paths with a ".." segment and a path with a NUL
PathArgs ==
    {WorkspacePrefix \o << "a" >>,
     WorkspacePrefix \o << "a", ".", ".", "b" >>,
     << "a" >>,
     << "/", "t", "m", "p", "/", "a" >>,
     WorkspacePrefix \o << ".", ".", "/", "a" >>,
     WorkspacePrefix \o << "a", "/", ".", "." >>,
     WorkspacePrefix \o << "a", "NUL" >>}

\* the file maps a caller may pass: the empty map, every map of one entry,
\* and the maps of two entries over two well-formed paths and over a
\* well-formed path and one outside the workspace
FileArgs ==
    UNION {[S -> HashArgs] :
              S \in {{}} \cup {{p} : p \in PathArgs}
                    \cup {{WorkspacePrefix \o << "a" >>, q} :
                             q \in {WorkspacePrefix \o << "a", ".", ".", "b" >>,
                                    << "/", "t", "m", "p", "/", "a" >>}}}

\* a front-end calls execute(source_code, files): validate_call checks the
\* arguments before the body runs; its ValidationError is no RuntimeError,
\* so the retry wrapper raises it to the caller
ExecuteValidated(e, files) ==
    IF ValidatesFiles(files)
    THEN ExecuteCall(e, {files})
    ELSE /\ tasks[e].pc = "idle"
         /\ tasks' = [tasks EXCEPT ![e] =
                AfterRaise([@ EXCEPT !.attempt = 1], "ValidationError")]
         /\ UNCHANGED << executor_pod_queue_target_length, restore_call, loop, parse_call,
                         kubectl_call, storage_tasks, front, poolVars, cluster,
                         delete_tasks, file_storage, yielded, released,
                         faults >>

----------------------------------------------------------------------------
(* PodFilesystemStateManager (pod_filesystem_state_manager.py). Strings are *)
(* sequences of characters. The files of the pod are a map from the path of *)
(* a regular file to the SHA-256 of its content, its directories the set    *)
(* of the directories below the managed folders. restore_call is one call   *)
(* of restore, suspended at one of its awaits.                               *)

\* self.managed_folders
managed_folders == {SubSeq(WorkspacePrefix, 1, Len(WorkspacePrefix) - 1)}

StartsWith(s, prefix) ==
    Len(s) >= Len(prefix) /\ SubSeq(s, 1, Len(prefix)) = prefix

\* lines 97-99: path.startswith(prefix + "/") for some managed folder
InManagedFolders(path) ==
    \E prefix \in managed_folders : StartsWith(path, prefix \o << "/" >>)

\* the directories below the managed folders that the file at path lies in
Folders(path) ==
    {d \in {SubSeq(path, 1, i - 1) : i \in 1 .. Len(path)} :
        /\ path[Len(d) + 1] = "/"
        /\ InManagedFolders(d)}

\* the pieces of s between the occurrences of the character c
RECURSIVE Split(_, _)
Split(s, c) ==
    IF \A i \in 1 .. Len(s) : s[i] # c THEN << s >>
    ELSE LET i == CHOOSE k \in 1 .. Len(s) :
                      s[k] = c /\ \A j \in 1 .. k - 1 : s[j] # c
         IN << SubSeq(s, 1, i - 1) >> \o Split(SubSeq(s, i + 1, Len(s)), c)

\* line 59, xargs without -0: the items of an input line are delimited by
\* blanks
XargsItems(line) ==
    LET pieces == Split(line, " ")
    IN {pieces[i] : i \in 1 .. Len(pieces)} \ {<< >>}

\* line 59, find {managed folders} -type f: one line per regular file
FindFiles(fs) == {path \in DOMAIN fs : InManagedFolders(path)}

\* line 59, sha256sum --zero --binary: what it prints for a file it can read
Sha256sumLine(hash, path) == hash \o << " ", "*" >> \o path

\* line 66, line.split(" *")
RECURSIVE SplitStar(_)
SplitStar(line) ==
    IF \A i \in 1 .. Len(line) - 1 : ~(line[i] = " " /\ line[i + 1] = "*")
    THEN << line >>
    ELSE LET i == CHOOSE k \in 1 .. Len(line) - 1 :
                      /\ line[k] = " " /\ line[k + 1] = "*"
                      /\ \A j \in 1 .. k - 1 :
                            ~(line[j] = " " /\ line[j + 1] = "*")
         IN << SubSeq(line, 1, i - 1) >>
                \o SplitStar(SubSeq(line, i + 2, Len(line)))

\* scan, lines 54-68. sha256sum fails on an item that is no file of the pod,
\* xargs then exits with 123 and Kubectl._command raises RuntimeError;
\* unpacking a line that does not split in two raises ValueError; otherwise
\* the dict of path: hash over the lines (NUL, which ends a line, is in no
\* path)
Scan(fs) ==
    LET items == UNION {XargsItems(path) : path \in FindFiles(fs)}
        lines == {Sha256sumLine(fs[item], item) : item \in items \cap DOMAIN fs}
    IN  IF \E item \in items : item \notin DOMAIN fs
        THEN [error |-> "RuntimeError", files |-> EmptyMap]
        ELSE IF \E line \in lines : Len(SplitStar(line)) # 2
        THEN [error |-> "ValueError", files |-> EmptyMap]
        ELSE [error |-> "None",
              files |-> [path \in {SplitStar(line)[2] : line \in lines} |->
                            SplitStar(CHOOSE line \in lines :
                                          SplitStar(line)[2] = path)[1]]]

\* lines 93-94: the items of one dict that are not items of the other
ItemsNotIn(a, b) ==
    {path \in DOMAIN a : path \notin DOMAIN b \/ a[path] # b[path]}

Restrict(f, S) == [x \in S |-> f[x]]

\* restore is called: validate_call has accepted files; the body runs up to
\* the await of scan (line 92)
RestoreCall(files) ==
    /\ restore_call.pc = "idle"
    /\ restore_call' = [restore_call EXCEPT !.pc = "scan", !.files = files]
    /\ UNCHANGED << executor_pod_queue_target_length, loop, parse_call,
                    kubectl_call, storage_tasks, front, poolVars, cluster,
                    delete_tasks, tasks, file_storage, yielded, released,
                    faults >>

\* lines 92-104: scan returns or raises; to_delete and to_upload; ValueError
\* for a path of either that is outside of the managed folders; then the
\* await of rm (with something to delete) or of find
RestoreScan ==
    /\ restore_call.pc = "scan"
    /\ LET current_files == Scan(restore_call.fs)
           to_delete == ItemsNotIn(current_files.files, restore_call.files)
           to_upload == ItemsNotIn(restore_call.files, current_files.files)
       IN restore_call' =
             IF current_files.error # "None"
             THEN [restore_call EXCEPT !.pc = "raised",
                                       !.error = current_files.error]
             ELSE IF \E path \in to_delete \cup to_upload :
                        ~InManagedFolders(path)
             THEN [restore_call EXCEPT !.pc = "raised", !.error = "ValueError"]
             ELSE [restore_call EXCEPT
                      !.pc = IF to_delete # {} THEN "rm" ELSE "find",
                      !.to_delete = to_delete, !.to_upload = to_upload]
    /\ UNCHANGED << executor_pod_queue_target_length, loop, parse_call,
                    kubectl_call, storage_tasks, front, poolVars, cluster,
                    delete_tasks, tasks, file_storage, yielded, released,
                    faults >>

\* line 104: rm -- of the paths of to_delete, all of them files scan has seen
RestoreRemoveFiles ==
    /\ restore_call.pc = "rm"
    /\ restore_call' =
          [restore_call EXCEPT
              !.pc = "find",
              !.fs = Restrict(@, DOMAIN @ \ restore_call.to_delete)]
    /\ UNCHANGED << executor_pod_queue_target_length, loop, parse_call,
                    kubectl_call, storage_tasks, front, poolVars, cluster,
                    delete_tasks, tasks, file_storage, yielded, released,
                    faults >>

\* lines 107-118: find -type d -mindepth 1 -empty -delete removes, deepest
\* first, the directories no file is left in; with nothing to upload restore
\* returns
RestoreRemoveFolders ==
    /\ restore_call.pc = "find"
    /\ restore_call' =
          [restore_call EXCEPT
              !.pc = IF restore_call.to_upload = {} THEN "done" ELSE "mkdir",
              !.dirs = {d \in @ : \E path \in DOMAIN restore_call.fs :
                                     d \in Folders(path)}]
    /\ UNCHANGED << executor_pod_queue_target_length, loop, parse_call,
                    kubectl_call, storage_tasks, front, poolVars, cluster,
                    delete_tasks, tasks, file_storage, yielded, released,
                    faults >>

\* lines 120-132: mkdir -p of the folder of every path of to_upload; it
\* fails (RuntimeError) where a file of the pod has the name of a folder
RestoreMakeFolders ==
    /\ restore_call.pc = "mkdir"
    /\ LET needed == UNION {Folders(path) : path \in restore_call.to_upload}
           made == {d \in needed :
                       Folders(d \o << "/" >>) \cap DOMAIN restore_call.fs = {}}
       IN restore_call' =
             IF made # needed
             THEN [restore_call EXCEPT !.pc = "raised",
                                       !.error = "RuntimeError",
                                       !.dirs = @ \cup made]
             ELSE [restore_call EXCEPT !.pc = "upload", !.dirs = @ \cup made]
    /\ UNCHANGED << executor_pod_queue_target_length, loop, parse_call,
                    kubectl_call, storage_tasks, front, poolVars, cluster,
                    delete_tasks, tasks, file_storage, yielded, released,
                    faults >>

\* lines 135-143, one file of to_upload (a dict made of a set: in any order):
\* Storage.reader raises FileNotFoundError for a hash without a blob; tee
\* fails (RuntimeError) on the name of a directory; otherwise the file has
\* the bytes of the blob, whose SHA-256 is the blob's name
RestoreUpload(path) ==
    /\ restore_call.pc = "upload"
    /\ path \in restore_call.to_upload
    /\ restore_call' =
          IF restore_call.files[path] \notin restore_call.store
          THEN [restore_call EXCEPT !.pc = "raised",
                                    !.error = "FileNotFoundError"]
          ELSE IF path \in restore_call.dirs
          THEN [restore_call EXCEPT !.pc = "raised", !.error = "RuntimeError"]
          ELSE [restore_call EXCEPT
                   !.pc = IF restore_call.to_upload = {path}
                          THEN "done" ELSE "upload",
                   !.to_upload = @ \ {path},
                   !.fs = [p \in DOMAIN @ \cup {path} |->
                              IF p = path THEN restore_call.files[path]
                              ELSE @[p]]]
    /\ UNCHANGED << executor_pod_queue_target_length, loop, parse_call,
                    kubectl_call, storage_tasks, front, poolVars, cluster,
                    delete_tasks, tasks, file_storage, yielded, released,
                    faults >>

\* the hashes of the blobs and the paths of the scenarios: a file, a file in
\* a folder of the same name, a file with a blank in its name, an empty
\* folder, and a path outside of the managed folders
PodHashes == {<< "h", "1" >>, << "h", "2" >>}
PodPaths ==
    {WorkspacePrefix \o << "a" >>,
     WorkspacePrefix \o << "a", "/", "b" >>,
     WorkspacePrefix \o << "c", " ", "d" >>}
EmptyFolder == WorkspacePrefix \o << "e" >>
OutsidePath == << "/", "t", "m", "p", "/", "x" >>

\* the states of the managed folders before the call: no file has the name
\* of the folder of another
PriorFiles ==
    {fs \in UNION {[S -> PodHashes] : S \in SUBSET PodPaths} :
        \A p, q \in DOMAIN fs : p \notin Folders(q)}

RestoreArgs == UNION {[S -> PodHashes] : S \in SUBSET (PodPaths \cup {OutsidePath})}

----------------------------------------------------------------------------
(* The specifications *)

\* the state after ApplicationContext.code_executor has built the executor:
\* an empty queue and one fill task created (application_context.py, line 82)
InitExecutor ==
    /\ executor_pod_queue = << >>
    /\ executor_pod_queue_spawning_count = 0
    /\ cluster = [p \in Pods |-> "absent"]
    /\ fill_scheduled = 1
    /\ fill_tasks = << >>
    /\ delete_tasks = {}
    /\ tasks = [e \in Callers |-> IdleTask]
    /\ yielded = [p \in Pods |-> 0]
    /\ released = {}

\* the pool scenarios: a warm queue, several callers, programs without files;
\* cancellation, which touches none of the pool's fields, is in the file
\* scenarios
Init ==
    /\ InitExecutor
    /\ executor_pod_queue_target_length \in 1 .. MaxTarget
    /\ file_storage = EmptyMap
    /\ storage_tasks = EmptyMap
    /\ front = EmptyMap
    /\ loop = EmptyMap
    /\ restore_call = EmptyMap
    /\ parse_call = EmptyMap
    /\ kubectl_call = EmptyMap
    /\ faults = MaxFaults

\* what POST /execute may raise: httpx's transport errors, a body that is
\* not JSON (ValueError), and RuntimeError, the class the retry wrapper of
\* execute tests for
PostErrors == {"TransportError", "JSONDecodeError", "RuntimeError"}

\* the callers are interchangeable: "e2" calls after "e1" has called
CallsInOrder(e) == e = "e2" => tasks["e1"].pc # "idle"

\* the spawn tasks of one fill are interchangeable: of several in the same
\* state, the first one takes the step
FirstOfItsKind(f, i) ==
    \A j \in 1 .. i - 1 : fill_tasks[f].spawns[j] # fill_tasks[f].spawns[i]

Next ==
    \/ FillStart
    \/ \E f \in 1 .. Len(fill_tasks) :
          \/ FillConsume(f)
          \/ \E i \in 1 .. Len(fill_tasks[f].spawns) :
                /\ FirstOfItsKind(f, i)
                /\ FillSpawnCreate(f, i) \/ FillSpawnWait(f, i)
    \/ \E e \in PoolCallers :
          \/ ExecuteCall(e, {EmptyMap}) /\ CallsInOrder(e)
          \/ ExecuteRetry(e)
          \/ SyncSpawnCreate(e)
          \/ SyncSpawnWait(e)
          \/ PostResponse(e, {EmptyMap}, {"RuntimeError"})

Spec == Init /\ [][Next]_vars

\* the pool scenarios in a cluster where a queued pod may stop being Ready
NextReady ==
    \/ Next
    \/ \E p \in Pods : PodLosesReady(p)

SpecReady == Init /\ [][NextReady]_vars

\* the file scenarios: no warm queue (target length 0), one caller, any file
\* map, any answer of the sandbox, any prior content of the store
InitFiles ==
    /\ InitExecutor
    /\ executor_pod_queue_target_length = 0
    /\ file_storage \in Stores
    /\ storage_tasks = EmptyMap
    /\ front = EmptyMap
    /\ loop = EmptyMap
    /\ restore_call = EmptyMap
    /\ parse_call = EmptyMap
    /\ kubectl_call = EmptyMap
    /\ faults = MaxFileFaults

NextFiles ==
    \/ \E e \in FileCallers :
          \/ ExecuteCall(e, FileMaps)
          \/ ExecuteRetry(e)
          \/ SyncSpawnCreate(e)
          \/ SyncSpawnWait(e)
          \/ \E p \in Paths : UploadFile(e, p)
          \/ PostSend(e)
          \/ PostResponse(e, Responses, PostErrors)
          \/ \E p \in Paths : DownloadExists(e, p) \/ DownloadGet(e, p)
          \/ ExecuteReturn(e)
          \/ ExecuteCancel(e)

SpecFiles == InitFiles /\ [][NextFiles]_vars

\* the writers are interchangeable: "w2" enters after "w1" has entered
WritersInOrder(w) == w = "w2" => storage_tasks["w1"].pc # "idle"

\* the storage scenarios: an empty store, concurrent writer scopes and reads
InitStore ==
    /\ InitExecutor
    /\ executor_pod_queue_target_length = 0
    /\ file_storage = EmptyMap
    /\ storage_tasks = [w \in Writers |-> IdleWriter] @@ [r \in Readers |-> IdleReader]
    /\ front = EmptyMap
    /\ loop = EmptyMap
    /\ restore_call = EmptyMap
    /\ parse_call = EmptyMap
    /\ kubectl_call = EmptyMap
    /\ faults = MaxFaults

NextStore ==
    \/ \E w \in Writers :
          \/ WriterEnter(w) /\ WritersInOrder(w)
          \/ WriterWrite(w)
          \/ WriterRaise(w)
          \/ WriterExit(w)
          \/ WriterCheckFinal(w)
          \/ WriterRename(w)
          \/ WriterFinally(w)
    \/ \E r \in Readers :
          \/ ReaderCall(r)
          \/ ReaderCheck(r)
          \/ ReaderOpen(r)
          \/ ReaderRead(r)

SpecStore == InitStore /\ [][NextStore]_vars

\* the front-ends in isolation: one request, answered by each surface over
\* the same engine behaviour
InitFront ==
    /\ InitExecutor
    /\ executor_pod_queue_target_length = 0
    /\ file_storage = EmptyMap
    /\ storage_tasks = EmptyMap
    /\ front \in [request : FrontRequests, http : {NotHandled},
                  grpc : {NotHandled}]
    /\ loop = EmptyMap
    /\ restore_call = EmptyMap
    /\ parse_call = EmptyMap
    /\ kubectl_call = EmptyMap
    /\ faults = 0

NextFront ==
    \/ HttpExecute
    \/ HttpParseCustomTool
    \/ HttpExecuteCustomTool
    \/ Execute
    \/ ParseCustomTool
    \/ ExecuteCustomTool

SpecFront == InitFront /\ [][NextFront]_vars

\* the tool compiler in isolation: one source, parsed
InitParse ==
    /\ InitExecutor
    /\ executor_pod_queue_target_length = 0
    /\ file_storage = EmptyMap
    /\ storage_tasks = EmptyMap
    /\ front = EmptyMap
    /\ loop = EmptyMap
    /\ restore_call = EmptyMap
    /\ \/ \E source \in ShapeSources : parse_call = Called(source)
       \/ \E source \in SignatureSources(MaxParams) :
             parse_call = Called(source)
       \/ \E source \in AnnotationSources(MaxDepth) :
             parse_call = Called(source)
       \/ parse_call = Called(RichSignatureSource)
    /\ kubectl_call = EmptyMap
    /\ faults = 0

NextParse == ParseCall

SpecParse == InitParse /\ [][NextParse]_vars

\* the adapter in isolation: one Kubectl instance, one call
InitKubectl ==
    /\ InitExecutor
    /\ executor_pod_queue_target_length = 0
    /\ file_storage = EmptyMap
    /\ storage_tasks = EmptyMap
    /\ front = EmptyMap
    /\ loop = EmptyMap
    /\ restore_call = EmptyMap
    /\ parse_call = EmptyMap
    /\ kubectl_call \in
           [default_kwargs : {FixKwargs(kwargs) : kwargs \in ConstructorKwargs},
            args : SeqsUpTo(ArgWords, MaxArgs), kwargs : KwargLists,
            pc : {"idle"}, name : {<< >>}, all_args : {<< >>}]
    /\ faults = 0

NextKubectl ==
    \/ \E name \in TextCommands : Command(name)
    \/ \E name \in JsonCommands : CommandJson(name)
    \/ ExecRaw

SpecKubectl == InitKubectl /\ [][NextKubectl]_vars

\* the pool scenarios with the delete tasks running: the event loop runs
\* every task that is ready to run, so a delete task that has been created
\* starts its command, and a command the orchestrator has accepted ends
NextLifecycle ==
    \/ Next
    \/ \E p \in Pods : DeleteSend(p) \/ DeleteWait(p)

SpecLifecycle ==
    /\ Init
    /\ [][NextLifecycle]_vars
    /\ \A p \in Pods : WF_vars(DeleteSend(p)) /\ WF_vars(DeleteWait(p))


\* the pool scenarios in a cluster that is failing: the environment may fail
\* as many kubectl commands as one spawn_executor_pod has attempts, so a
\* spawn may give up
InitFailing ==
    /\ InitExecutor
    /\ executor_pod_queue_target_length \in 1 .. MaxTarget
    /\ file_storage = EmptyMap
    /\ storage_tasks = EmptyMap
    /\ front = EmptyMap
    /\ loop = EmptyMap
    /\ restore_call = EmptyMap
    /\ parse_call = EmptyMap
    /\ kubectl_call = EmptyMap
    /\ faults = StopAfterAttempt

\* one caller and the fills
NextFailing ==
    \/ FillStart
    \/ \E f \in 1 .. Len(fill_tasks) :
          \/ FillConsume(f)
          \/ \E i \in 1 .. Len(fill_tasks[f].spawns) :
                /\ FirstOfItsKind(f, i)
                /\ FillSpawnCreate(f, i) \/ FillSpawnWait(f, i)
    \/ \E e \in FileCallers :
          \/ ExecuteCall(e, {EmptyMap})
          \/ ExecuteRetry(e)
          \/ SyncSpawnCreate(e)
          \/ SyncSpawnWait(e)
          \/ PostResponse(e, {EmptyMap}, {"RuntimeError"})

SpecFailing == InitFailing /\ [][NextFailing]_vars

\* the failing cluster with the event loop running the fills: a fill that has
\* a finished spawn task to await is resumed
SpecFailingFair ==
    /\ SpecFailing
    /\ WF_vars(\E f \in 1 .. Len(fill_tasks) : FillConsume(f))

\* the event-loop scenarios: the executor after construction, with one fill
\* task created, then acquires, fills and iterations of the loop
InitLoop ==
    /\ InitExecutor
    /\ executor_pod_queue_target_length = 0
    /\ file_storage = EmptyMap
    /\ storage_tasks = EmptyMap
    /\ front = EmptyMap
    /\ \E target \in 1 .. MaxLoopTarget :
          loop = [target |-> target, queue |-> << >>, spawning_count |-> 0,
                  fill_scheduled |-> 1, fills |-> 0, owner |-> << >>,
                  todo |-> {}, wakeups |-> << >>, acquires |-> 0,
                  completed |-> << >>, appended |-> << >>, handed |-> << >>]
    /\ restore_call = EmptyMap
    /\ parse_call = EmptyMap
    /\ kubectl_call = EmptyMap
    /\ faults = 0

NextLoop ==
    \/ LoopFillStart
    \/ LoopAcquire
    \/ LoopIteration
    \/ LoopWakeup

SpecLoop == InitLoop /\ [][NextLoop]_vars

\* the failing cluster in which the event loop may also cancel a fill task
NextCancel ==
    \/ NextFailing
    \/ \E f \in 1 .. Len(fill_tasks) : FillCancel(f)

SpecCancel == InitFailing /\ [][NextCancel]_vars

\* the acquires of a caller so far: every attempt of execute enters
\* executor_pod once; a call waiting to retry has yet to start the attempt
AcquiresOf(e) ==
    IF tasks[e].pc = "backoff" THEN tasks[e].attempt - 1 ELSE tasks[e].attempt

Acquires == AcquiresOf("e1") + AcquiresOf("e2")

\* a further acquire leaves the orchestrator a name for each pod of the
\* queue and for each pod handed out
CanAcquire == executor_pod_queue_target_length + Acquires + 1 <= MaxPods

\* the pool scenarios in a cluster whose spawns all succeed: kubectl create
\* and kubectl wait return the pod, while POST /execute may fail and make
\* the call acquire again
NextWarm ==
    \/ FillStart
    \/ \E f \in 1 .. Len(fill_tasks) :
          \/ FillConsume(f)
          \/ \E i \in 1 .. Len(fill_tasks[f].spawns) :
                /\ FirstOfItsKind(f, i)
                /\ FillSpawnCreate(f, i) \/ FillSpawnWait(f, i)
                /\ faults' = faults
    \/ \E e \in PoolCallers :
          \/ ExecuteCall(e, {EmptyMap}) /\ CallsInOrder(e) /\ CanAcquire
          \/ ExecuteRetry(e) /\ CanAcquire
          \/ (SyncSpawnCreate(e) \/ SyncSpawnWait(e)) /\ faults' = faults
          \/ PostResponse(e, {EmptyMap}, {"RuntimeError"})

\* the event loop runs every task that is ready: a scheduled fill starts, a
\* kubectl command of a spawn returns, a fill with a finished spawn resumes
SpecWarm ==
    /\ Init
    /\ [][NextWarm]_vars
    /\ WF_vars(FillStart)
    /\ WF_vars(\E f \in 1 .. Len(fill_tasks) : FillConsume(f))
    /\ WF_vars(\E f \in 1 .. Len(fill_tasks) :
                  \E i \in 1 .. Len(fill_tasks[f].spawns) :
                      /\ FillSpawnCreate(f, i) \/ FillSpawnWait(f, i)
                      /\ faults' = faults)

\* the validation scenarios: the pool in a cluster in which nothing fails,
\* and one caller that passes any file map, well-formed or not; the store
\* holds no blob, so an upload of a well-formed map raises FileNotFoundError
InitValidate ==
    /\ InitExecutor
    /\ executor_pod_queue_target_length \in 1 .. MaxTarget
    /\ file_storage = EmptyMap
    /\ storage_tasks = EmptyMap
    /\ front = EmptyMap
    /\ loop = EmptyMap
    /\ restore_call = EmptyMap
    /\ parse_call = EmptyMap
    /\ kubectl_call = EmptyMap
    /\ faults = 0

NextValidate ==
    \/ FillStart
    \/ \E f \in 1 .. Len(fill_tasks) :
          \/ FillConsume(f)
          \/ \E i \in 1 .. Len(fill_tasks[f].spawns) :
                /\ FirstOfItsKind(f, i)
                /\ FillSpawnCreate(f, i) \/ FillSpawnWait(f, i)
    \/ \E e \in FileCallers :
          \/ \E files \in FileArgs : ExecuteValidated(e, files)
          \/ SyncSpawnCreate(e)
          \/ SyncSpawnWait(e)
          \/ \E p \in PathArgs : UploadFile(e, p)
          \/ PostResponse(e, {EmptyMap}, {})

SpecValidate == InitValidate /\ [][NextValidate]_vars

\* the restore scenarios: any prior state of the managed folders, with or
\* without an empty folder, any set of blobs in the store, any file map
InitRestore ==
    /\ InitExecutor
    /\ executor_pod_queue_target_length = 0
    /\ file_storage = EmptyMap
    /\ storage_tasks = EmptyMap
    /\ front = EmptyMap
    /\ loop = EmptyMap
    /\ \E fs \in PriorFiles, empty \in SUBSET {EmptyFolder},
          store \in SUBSET PodHashes :
          LET dirs == UNION {Folders(path) : path \in DOMAIN fs} \cup empty
          IN restore_call =
                [pc |-> "idle", fs |-> fs, dirs |-> dirs, store |-> store,
                 before |-> [fs |-> fs, dirs |-> dirs], files |-> EmptyMap,
                 to_delete |-> {}, to_upload |-> {}, error |-> "None"]
    /\ parse_call = EmptyMap
    /\ kubectl_call = EmptyMap
    /\ faults = 0

NextRestore ==
    \/ \E files \in RestoreArgs : RestoreCall(files)
    \/ RestoreScan
    \/ RestoreRemoveFiles
    \/ RestoreRemoveFolders
    \/ RestoreMakeFolders
    \/ \E path \in PodPaths : RestoreUpload(path)

SpecRestore == InitRestore /\ [][NextRestore]_vars

----------------------------------------------------------------------------
(* The claims *)

Range(q) == {q[i] : i \in 1 .. Len(q)}

\* C1: no sandbox is yielded by executor_pod more than once, whatever the
\* interleaving of concurrent calls, retries and fills, and a sandbox that
\* has been yielded is not in the ready queue.
C1_SandboxUniqueness ==
    \A p \in Pods :
        /\ yielded[p] <= 1
        /\ yielded[p] >= 1 => p \notin Range(executor_pod_queue)

\* C1, its case: three sandboxes have been yielded, two of them to the same
\* call (a retry), while a fill runs.
C1_Witness ==
    /\ \A p \in Pods : yielded[p] = 1
    /\ \E e \in Callers : tasks[e].attempt = 2 /\ Cardinality(tasks[e].pods) = 2
    /\ \E e \in Callers : tasks[e].attempt = 1 /\ Cardinality(tasks[e].pods) = 1

\* C2: between any two steps, the length of the ready queue plus the
\* spawning count is at most the target length, and so is the length of the
\* queue alone.
C2_NoOverSpawn ==
    /\ Len(executor_pod_queue) + executor_pod_queue_spawning_count
          <= executor_pod_queue_target_length
    /\ Len(executor_pod_queue) <= executor_pod_queue_target_length

\* C2, its case: after an acquire has popped from the queue, a fill started
\* by it has spawns in flight while another fill is scheduled, and queue
\* plus spawning count reach the target.
C2_Witness ==
    /\ executor_pod_queue_target_length = 2
    /\ \E p \in Pods : yielded[p] = 1
    /\ Len(executor_pod_queue) = 1
    /\ executor_pod_queue_spawning_count = 1
    /\ fill_scheduled > 0

\* C3: every sandbox yielded to a call is either the one whose scope the call
\* is in, or has had its deletion scheduled: the scope is left by a return,
\* by an exception (upload, POST, download) or by a cancellation.
C3_DeletionScheduledOnExit ==
    \A e \in Callers : \A p \in tasks[e].pods :
        \/ tasks[e].pc \in InScope /\ tasks[e].pod = p
        \/ p \in released

\* C3, its case: a call whose first attempt left the scope by an exception
\* and whose second attempt was cancelled inside the scope.
C3_Witness ==
    \E e \in Callers :
        /\ tasks[e].pc = "cancelled"
        /\ Cardinality(tasks[e].pods) = 2
        /\ tasks[e].pods \subseteq released

\* C4: every sandbox is Ready per the orchestrator at the step that hands it
\* out, also after it has waited in the queue.
C4_ReadyAtHandOut ==
    [][\A p \in Pods : yielded'[p] > yielded[p] => cluster'[p] = "Ready"]_vars

\* C5: when a call has been cancelled, every sandbox created on its behalf
\* (by its own spawn_executor_pod) or yielded to it has its deletion
\* scheduled.
C5_NoLeakUnderCancellation ==
    \A e \in Callers :
        tasks[e].pc = "cancelled" =>
            (tasks[e].created \cup tasks[e].pods) \subseteq released

\* C6: a call whose downloads have all returned, one of them skipped because
\* the store already held the hash, succeeds, and its files are the whole
\* changed set.
C6_SkippedDownloadSucceeds ==
    \A e \in Callers :
        ( /\ tasks[e].pc \in {"done", "failed"}
          /\ DOMAIN tasks[e].downloads # {}
          /\ \A p \in DOMAIN tasks[e].downloads :
                tasks[e].downloads[p].pc = "returned"
          /\ \E p \in DOMAIN tasks[e].downloads :
                tasks[e].downloads[p].ret = "None" )
        => /\ tasks[e].pc = "done"
           /\ DOMAIN tasks[e].result =
                 {p \in DOMAIN tasks[e].response :
                     /\ tasks[e].response[p].old_hash # tasks[e].response[p].new_hash
                     /\ tasks[e].response[p].new_hash # ""}

\* C7: the files of a successful call hold only paths whose new hash is not
\* empty and differs from the old hash of the same path.
C7_FileResultMinimality ==
    \A e \in Callers :
        tasks[e].pc = "done" =>
            \A p \in DOMAIN tasks[e].result :
                /\ p \in DOMAIN tasks[e].response
                /\ tasks[e].response[p].new_hash # ""
                /\ tasks[e].response[p].new_hash # tasks[e].response[p].old_hash

\* C7, its case: a successful call that reports one path while the sandbox
\* also listed an unchanged path or a deleted one.
C7_Witness ==
    \E e \in Callers :
        /\ tasks[e].pc = "done"
        /\ DOMAIN tasks[e].result # {}
        /\ \E q \in DOMAIN tasks[e].response \ DOMAIN tasks[e].result :
              /\ tasks[e].response[q].old_hash = "h1"
              /\ tasks[e].response[q].new_hash \in {"", "h1"}

\* C8: every value of the files of a successful call is an object hash
\* naming a blob the store holds.
C8_ResultHashesStored ==
    \A e \in Callers :
        tasks[e].pc = "done" =>
            \A p \in DOMAIN tasks[e].result :
                /\ tasks[e].result[p] \in Hashes
                /\ tasks[e].result[p] \in DOMAIN file_storage

\* C9: when POST /execute has been sent, every upload of the attempt has
\* completed; when the call has returned, the blob of every changed file is
\* in the store.
C9_UploadsBeforePostDownloadsBeforeReturn ==
    \A e \in Callers :
        /\ tasks[e].posted =>
              \A p \in DOMAIN tasks[e].uploads : tasks[e].uploads[p] \in {"2xx", "5xx"}
        /\ tasks[e].pc = "done" =>
              \A p \in DOMAIN tasks[e].response :
                  ( /\ tasks[e].response[p].old_hash # tasks[e].response[p].new_hash
                    /\ tasks[e].response[p].new_hash # "" )
                  => tasks[e].response[p].new_hash \in DOMAIN file_storage

\* C9, its case: a call with two uploads and two downloads has returned.
C9_Witness ==
    \E e \in Callers :
        /\ tasks[e].pc = "done"
        /\ DOMAIN tasks[e].uploads = Paths
        /\ DOMAIN tasks[e].result = Paths

\* C10: a call makes at most 3 attempts; an attempt is followed by another
\* only if it raised RuntimeError (the orchestrator error); an attempt that
\* raised anything else is the last one, and the call fails with that error.
C10_RetryOnlyOrchestratorError ==
    \A e \in Callers :
        /\ tasks[e].attempt <= 3
        /\ Len(tasks[e].raised) <= 3
        /\ \A i \in 1 .. Len(tasks[e].raised) :
              /\ i < tasks[e].attempt => tasks[e].raised[i] = "RuntimeError"
              /\ tasks[e].raised[i] # "RuntimeError" =>
                    /\ i = Len(tasks[e].raised)
                    /\ tasks[e].pc = "failed"
                    /\ tasks[e].error = tasks[e].raised[i]

\* C10, its case: two attempts failed with RuntimeError and were retried, the
\* third failed with another error and ended the call.
C10_Witness ==
    \E e \in Callers :
        /\ tasks[e].pc = "failed"
        /\ tasks[e].attempt = 3
        /\ tasks[e].raised = << "RuntimeError", "RuntimeError", "TransportError" >>
        /\ tasks[e].error = "TransportError"

\* C11: a transport error of a sandbox HTTP call (PUT, POST, GET) is retried
\* by the wrapper of execute: a call fails with a transport error only when
\* its three attempts are used up.
C11_TransportErrorRetried ==
    \A e \in Callers :
        (tasks[e].pc = "failed" /\ tasks[e].error = "TransportError")
            => tasks[e].attempt = StopAfterAttempt

\* C12: POST /execute is sent only in an attempt all of whose uploads were
\* answered with a 2xx status.
C12_UploadErrorStopsAttempt ==
    \A e \in Callers :
        tasks[e].posted =>
            \A p \in DOMAIN tasks[e].uploads : tasks[e].uploads[p] # "5xx"

\* C13: a write of the bytes B that has ended returned the hex digest of B
\* and the store holds B under that name, however B was cut into chunks and
\* whatever other writers did meanwhile; a read of a hash that has returned
\* gave bytes whose digest is that hash.
C13_HashIntegrity ==
    /\ \A w \in Writers :
          storage_tasks[w].pc = "done" =>
              /\ storage_tasks[w].ret = HexDigest(storage_tasks[w].data)
              /\ StorageExists(file_storage, storage_tasks[w].ret)
              /\ file_storage[storage_tasks[w].ret] = storage_tasks[w].data
    /\ \A r \in Readers :
          storage_tasks[r].pc = "done" =>
              HexDigest(storage_tasks[r].ret) = storage_tasks[r].hash

\* C13, its case: a write in two chunks has ended, another writer has
\* written other bytes, and a read of the returned hash gave the bytes back.
C13_Witness ==
    \E w \in Writers : \E v \in Writers \ {w} : \E r \in Readers :
        /\ storage_tasks[w].pc = "done"
        /\ storage_tasks[w].writes = 2
        /\ storage_tasks[v].pc = "done"
        /\ storage_tasks[v].data # storage_tasks[w].data
        /\ storage_tasks[r].pc = "done"
        /\ storage_tasks[r].hash = storage_tasks[w].ret
        /\ storage_tasks[r].ret = storage_tasks[w].data

\* the blobs of a directory: its files other than the temporary ones
Blobs(dir) == [n \in DOMAIN dir \cap ObjectHashes |-> dir[n]]

\* C14: when two writes of the same bytes B have ended, the store holds one
\* file, named by the digest of B; and no writer that has ended has left its
\* temporary file.
C14_StoreIdempotence ==
    /\ \A w \in Writers :
          storage_tasks[w].pc = "done" =>
              ~StorageExists(file_storage, TmpName(w))
    /\ \A w \in Writers : \A v \in Writers \ {w} :
          ( /\ storage_tasks[w].pc = "done"
            /\ storage_tasks[v].pc = "done"
            /\ storage_tasks[w].data = storage_tasks[v].data )
          => DOMAIN file_storage = {HexDigest(storage_tasks[w].data)}

\* C14, its case: two writes of the same bytes have ended, one after the
\* other: the second found the name taken and discarded its temporary file.
C14_Witness ==
    \E w \in Writers : \E v \in Writers \ {w} :
        /\ storage_tasks[w].pc = "done" /\ storage_tasks[w].renamed
        /\ storage_tasks[v].pc = "done" /\ ~storage_tasks[v].renamed
        /\ storage_tasks[w].data = storage_tasks[v].data
        /\ Len(storage_tasks[w].data) = 2

\* C15: a writer whose scope was left by an exception never renames: no step
\* it takes changes the blobs of the store; and once its scope is over its
\* temporary file is gone.
C15_WriterAtomicity ==
    /\ [](\A w \in Writers :
            storage_tasks[w].pc = "failed" =>
                ~StorageExists(file_storage, TmpName(w)))
    /\ [][\A w \in Writers :
            (storage_tasks'[w].raised /\ storage_tasks'[w] # storage_tasks[w])
                => Blobs(file_storage') = Blobs(file_storage)]_vars

\* C15, its case: a writer failed after it had written a part of its bytes,
\* while the store holds the blob of another writer.
C15_Witness ==
    \E w \in Writers : \E v \in Writers \ {w} :
        /\ storage_tasks[w].pc = "failed"
        /\ storage_tasks[w].writes = 1
        /\ storage_tasks[w].left # << >>
        /\ storage_tasks[v].pc = "done"
        /\ DOMAIN file_storage = {storage_tasks[v].ret}

\* C16: whatever the interleaving of writers and readers, the bytes of a
\* blob have the digest that names it, a blob stays and keeps its bytes, and
\* the bytes a reader holds or returns have the digest it asked for.
C16_ConcurrentStoreSafety ==
    /\ [](\A n \in DOMAIN Blobs(file_storage) : HexDigest(file_storage[n]) = n)
    /\ [](\A r \in Readers :
            storage_tasks[r].pc \in {"read", "done"} =>
                HexDigest(storage_tasks[r].handle) = storage_tasks[r].hash)
    /\ [][\A n \in DOMAIN Blobs(file_storage) :
            /\ StorageExists(file_storage', n)
            /\ file_storage'[n] = file_storage[n]]_vars

\* C16, its case: two writers of the same bytes both passed the existence
\* check before either renamed, both renamed, and a reader read the blob.
C16_Witness ==
    \E w \in Writers : \E v \in Writers \ {w} : \E r \in Readers :
        /\ storage_tasks[w].renamed /\ storage_tasks[v].renamed
        /\ storage_tasks[w].final_name = storage_tasks[v].final_name
        /\ storage_tasks[r].pc = "done"
        /\ storage_tasks[r].hash = storage_tasks[w].final_name

ResponseClass(response) ==
    IF response.status \in {"200", "OK"} /\ response.variant = "success"
    THEN "success"
    ELSE IF response.status \in {"400", "OK"} /\ response.variant = "error"
    THEN "structured error"
    ELSE "generic error"

\* what the client learns from a response: its class and, unless the error is
\* generic, its body
ClientOutcome(response) ==
    [class |-> ResponseClass(response),
     body |-> IF ResponseClass(response) = "generic error"
              THEN EmptyMap ELSE response.body]

\* C18: the HTTP surface and the RPC surface give the same outcome to the
\* same request: the same stdout, stderr, exit_code and files for execute,
\* the same tool output or the same stderr error for a custom tool.
C18_SurfacesAgree ==
    (front # EmptyMap /\ front.http # NotHandled /\ front.grpc # NotHandled)
        => ClientOutcome(front.http.response)
               = ClientOutcome(front.grpc.response)

\* what each front-end did with the request, once it has answered
Answers ==
    IF front = EmptyMap THEN {}
    ELSE {h \in {front.http, front.grpc} : h # NotHandled}

ToolRuns ==
    IF front = EmptyMap THEN {}
    ELSE {h \in {front.grpc} :
              /\ front.request.op = "execute_tool"
              /\ h.outcome.call.made
              /\ front.request.engine.kind = "result"}

\* C20 as stated: the driver is submitted with an empty file map; a non-zero
\* exit_code fails with CustomToolExecuteError carrying the sandbox's stderr;
\* otherwise the sandbox's stdout is returned verbatim.
C20_StdoutVerbatim ==
    \A h \in ToolRuns :
        LET result == front.request.engine.result IN
        /\ h.outcome.call.files = EmptyMap
        /\ result.exit_code # 0
              => /\ h.outcome.error = "CustomToolExecuteError"
                 /\ h.outcome.value = result.stderr
        /\ result.exit_code = 0
              => /\ h.outcome.kind = "return"
                 /\ h.outcome.value = [type |-> "str", text |-> result.stdout]

\* C20: the driver is submitted with an empty file map; a non-zero exit_code
\* fails with CustomToolExecuteError carrying the sandbox's stderr and
\* returns nothing; otherwise the value that the sandbox's stdout denotes as
\* a JSON document is returned, and a stdout that is not a JSON document
\* fails with JSONDecodeError.
C20_StdoutParsed ==
    \A h \in ToolRuns :
        LET result == front.request.engine.result IN
        /\ h.outcome.call.files = EmptyMap
        /\ result.exit_code # 0
              => /\ h.outcome.kind = "raise"
                 /\ h.outcome.error = "CustomToolExecuteError"
                 /\ h.outcome.value = result.stderr
        /\ (result.exit_code = 0 /\ JsonLoads(result.stdout) # DecodeError)
              => /\ h.outcome.kind = "return"
                 /\ h.outcome.value = JsonLoads(result.stdout)
        /\ (result.exit_code = 0 /\ JsonLoads(result.stdout) = DecodeError)
              => /\ h.outcome.kind = "raise"
                 /\ h.outcome.error = "JSONDecodeError"

\* a tool run that ended with exit_code 0 and printed "3" and a newline has
\* returned the number 3, whose document lacks the newline
C20_Witness ==
    \E h \in ToolRuns :
        /\ front.request.engine.result.exit_code = 0
        /\ front.request.engine.result.stdout = << "3", "\n" >>
        /\ h.outcome.kind = "return"
        /\ h.outcome.value = [type |-> "int", text |-> << "3" >>]
        /\ h.response.body.tool_output_json = << "3" >>

\* the top level is zero or more imports followed by one function definition
AcceptedShape(body) ==
    /\ Len(body) >= 1
    /\ body[Len(body)].stmt = "FunctionDef"
    /\ \A i \in 1 .. (Len(body) - 1) : body[i].stmt \in {"Import", "ImportFrom"}

\* C21: for every syntactically valid source whose top level is not zero or
\* more imports followed by exactly one function definition, the empty
\* source included, parse fails with CustomToolParseError holding exactly
\* the single-function message.
C21_ShapeRejected ==
    (/\ parse_call # EmptyMap
     /\ parse_call.pc = "done"
     /\ parse_call.source.syntax_ok
     /\ ~AcceptedShape(parse_call.source.body))
        => /\ parse_call.outcome.error = "CustomToolParseError"
           /\ parse_call.outcome.value = << SingleFunctionMessage >>

\* every parameter of a signature, of whatever kind
AllParameters(args) ==
    args.posonlyargs \o args.args \o args.kwonlyargs
        \o (IF args.vararg = None THEN << >> ELSE << args.vararg >>)
        \o (IF args.kwarg = None THEN << >> ELSE << args.kwarg >>)

\* the messages of the rules a signature violates
ViolatedRules(args) ==
    {m \in {PosonlyMessage, VarargMessage, KwargMessage, AnnotationMessage} :
        \/ m = PosonlyMessage /\ args.posonlyargs # << >>
        \/ m = VarargMessage /\ args.vararg # None
        \/ m = KwargMessage /\ args.kwarg # None
        \/ m = AnnotationMessage
              /\ \E i \in DOMAIN AllParameters(args) :
                     AllParameters(args)[i].annotation = None}

\* the function definition of a parsed source of the accepted shape
ParsedFunctions ==
    IF /\ parse_call # EmptyMap
       /\ parse_call.pc = "done"
       /\ parse_call.source.syntax_ok
       /\ AcceptedShape(parse_call.source.body)
    THEN {parse_call.source.body[Len(parse_call.source.body)]}
    ELSE {}

\* C22: for every function signature that violates a rule, parse fails with
\* CustomToolParseError whose list holds exactly the messages of the rules
\* the signature violates (positional-only parameters, *args, **kwargs, a
\* parameter without annotation), each once.
C22_AllViolationsReported ==
    \A f \in ParsedFunctions :
        ViolatedRules(f.args) # {}
            => /\ parse_call.outcome.error = "CustomToolParseError"
               /\ Range(parse_call.outcome.value) = ViolatedRules(f.args)
               /\ Len(parse_call.outcome.value)
                      = Cardinality(ViolatedRules(f.args))

\* the messages of the rules a signature violates, the annotation rule
\* being judged on the positional-or-keyword and keyword-only parameters
ViolatedRulesOfNamedParameters(args) ==
    {m \in {PosonlyMessage, VarargMessage, KwargMessage, AnnotationMessage} :
        \/ m = PosonlyMessage /\ args.posonlyargs # << >>
        \/ m = VarargMessage /\ args.vararg # None
        \/ m = KwargMessage /\ args.kwarg # None
        \/ m = AnnotationMessage
              /\ \E i \in DOMAIN (args.args \o args.kwonlyargs) :
                     (args.args \o args.kwonlyargs)[i].annotation = None}

\* C22: for every function signature that violates a rule, parse fails with
\* CustomToolParseError whose list holds exactly the messages of the rules
\* the signature violates, each once, where the annotation rule counts a
\* positional-or-keyword or keyword-only parameter without annotation; a
\* signature violating no rule does not fail with a rule's message.
C22_ViolationsOfNamedParameters ==
    \A f \in ParsedFunctions :
        /\ ViolatedRulesOfNamedParameters(f.args) # {}
              => /\ parse_call.outcome.error = "CustomToolParseError"
                 /\ Range(parse_call.outcome.value)
                        = ViolatedRulesOfNamedParameters(f.args)
                 /\ Len(parse_call.outcome.value)
                        = Cardinality(ViolatedRulesOfNamedParameters(f.args))
        /\ ViolatedRulesOfNamedParameters(f.args) = {}
              => parse_call.outcome.error # "CustomToolParseError"

\* a signature with a positional-only parameter, *args, **kwargs and an
\* unannotated parameter has been answered with the four messages
C22_Witness ==
    \E f \in ParsedFunctions :
        /\ f.args.posonlyargs # << >>
        /\ f.args.vararg # None
        /\ f.args.kwarg # None
        /\ \E i \in DOMAIN f.args.args : f.args.args[i].annotation = None
        /\ parse_call.outcome.error = "CustomToolParseError"
        /\ Len(parse_call.outcome.value) = 4

\* an annotation outside the supported constructs (bytes), or a dict whose
\* key type is not a string type (dict[int, T])
UnsupportedAnnotation(t) ==
    \/ t.node = "Name" /\ t.id = "bytes"
    \/ /\ t.node = "Subscript"
       /\ Unparse(t.value) = "dict"
       /\ t.slice.node = "Tuple"
       /\ Unparse(t.slice.elts[1]) = "int"

\* C23: a parameter annotation that is not a supported construct, or a dict
\* annotation with a non-string key type, makes parse fail with
\* CustomToolParseError naming the annotation, never with another kind of
\* error.
C23_UnsupportedIsParseError ==
    \A f \in ParsedFunctions :
        (/\ ViolatedRulesOfNamedParameters(f.args) = {}
         /\ \E i \in DOMAIN f.args.args :
                UnsupportedAnnotation(f.args.args[i].annotation))
            => /\ parse_call.outcome.kind = "raise"
               /\ parse_call.outcome.error = "CustomToolParseError"

RECURSIVE TableSchema(_)

\* the fragment that the mapping table of the tool compiler gives an
\* annotation, the forms of typing being written with or without the
\* module's name; an annotation outside the table is an error
TableSchema(t) ==
    LET head == IF t.node = "Subscript" THEN Unparse(t.value) ELSE ""
        elts == IF t.slice.node = "Tuple" THEN t.slice.elts ELSE << t.slice >>
        Each == Gathered([i \in DOMAIN elts |-> TableSchema(elts[i])])
        Wrap(r, F(_)) == IF r.raise # "" THEN r ELSE Schema(F(r.value))
    IN
    IF t.node \in {"Name", "Attribute"}
    THEN IF Unparse(t) = "int" THEN Schema([type |-> "integer"])
         ELSE IF Unparse(t) = "float" THEN Schema([type |-> "number"])
         ELSE IF Unparse(t) = "str" THEN Schema([type |-> "string"])
         ELSE IF Unparse(t) = "bool" THEN Schema([type |-> "boolean"])
         ELSE IF Unparse(t) \in {"Any", "typing.Any"}
         THEN Schema([type |-> "array"])
         ELSE SchemaError("unsupported", Unparse(t))
    ELSE IF t.node # "Subscript" THEN SchemaError("unsupported", Unparse(t))
    ELSE IF head = "list" /\ Len(elts) = 1
    THEN Wrap(TableSchema(elts[1]),
              LAMBDA s : [type |-> "array", items |-> s])
    ELSE IF head = "dict" /\ Len(elts) = 2 /\ Unparse(elts[1]) = "str"
    THEN Wrap(TableSchema(elts[2]),
              LAMBDA s : [type |-> "object", additionalProperties |-> s])
    ELSE IF head \in {"Optional", "typing.Optional"} /\ Len(elts) = 1
    THEN Wrap(TableSchema(elts[1]),
              LAMBDA s : [anyOf |-> << [type |-> "null"], s >>])
    ELSE IF head \in {"Union", "typing.Union"}
    THEN Wrap(Each, LAMBDA s : [anyOf |-> s])
    ELSE IF head \in {"Tuple", "typing.Tuple"}
    THEN Wrap(Each,
              LAMBDA s : [type |-> "array", minItems |-> Len(elts),
                          items |-> s, additionalItems |-> FALSE])
    ELSE IF head \in {"Literal", "typing.Literal"}
            /\ \A i \in DOMAIN elts : elts[i].node = "Constant"
    THEN Schema([enum |-> [i \in DOMAIN elts |-> elts[i].value]])
    ELSE SchemaError("unsupported", Unparse(t))

\* C24: for every parameter annotation built from the supported forms, parse
\* returns the fragment of the mapping table as the parameter's property,
\* Optional[T] giving anyOf[{type: null}, T*] whether written Optional[T] or
\* typing.Optional[T].
C24_SchemaOfTable ==
    \A f \in ParsedFunctions :
        LET params == f.args.args \o f.args.kwonlyargs IN
        (/\ ViolatedRules(f.args) = {}
         /\ \A i \in DOMAIN params :
                TableSchema(params[i].annotation).raise = "")
            => /\ parse_call.outcome.kind = "return"
               /\ \A i \in DOMAIN params :
                      parse_call.outcome.value.input_schema
                              .properties[params[i].arg]
                          = TableSchema(params[i].annotation).value

\* the parameters of a signature in source order, each with whether the
\* source gives it a default value: defaults belong to the last positional
\* parameters
ParametersWithDefault(args) ==
    [i \in DOMAIN args.args |->
        [arg |-> args.args[i].arg,
         default |-> i > Len(args.args) - Len(args.defaults)]]
    \o [i \in DOMAIN args.kwonlyargs |->
        [arg |-> args.kwonlyargs[i].arg,
         default |-> args.kw_defaults[i] # None]]

NamesOf(params) == [i \in DOMAIN params |-> params[i].arg]

\* C25: in the schema parse returns, properties has one entry per parameter
\* and required lists exactly the parameters without a default value,
\* positional-or-keyword and keyword-only alike, in source order.
C25_RequiredWithoutDefault ==
    \A f \in ParsedFunctions :
        parse_call.outcome.kind = "return"
            => LET schema == parse_call.outcome.value.input_schema
                   params == ParametersWithDefault(f.args)
               IN /\ DOMAIN schema.properties = Range(NamesOf(params))
                  /\ schema.required
                         = NamesOf(SelectSeq(params, LAMBDA p : ~p.default))

\* a schema has been returned for a signature that has, of each kind, a
\* parameter with a default and one without
C25_Witness ==
    \E f \in ParsedFunctions :
        /\ parse_call.outcome.kind = "return"
        /\ Len(f.args.args) = 2 /\ Len(f.args.defaults) = 1
        /\ Len(f.args.kwonlyargs) = 2
        /\ f.args.kw_defaults[1] # None /\ f.args.kw_defaults[2] = None
        /\ parse_call.outcome.value.input_schema.required = << "a", "l" >>

\* the sources whose one parameter is annotated through an alias of the
\* import prologue: X.Optional[T] under "import typing as X", O[T] under
\* "from typing import Optional as O"
AliasedOptionals ==
    {f \in ParsedFunctions :
        LET imports == SubSeq(parse_call.source.body, 1,
                              Len(parse_call.source.body) - 1)
        IN /\ Len(f.args.args) = 1
           /\ f.args = OneParameter(f.args.args[1].annotation)
           /\ f.args.args[1].annotation.node = "Subscript"
           /\ \/ /\ Unparse(f.args.args[1].annotation.value) = "X.Optional"
                 /\ Import("typing", "X") \in Range(imports)
              \/ /\ Unparse(f.args.args[1].annotation.value) = "O"
                 /\ ImportFrom("typing", "Optional", "O") \in Range(imports)}

\* the same source with the annotation written typing.Optional[T]
Unaliased(source) ==
    LET f == source.body[Len(source.body)]
        t == f.args.args[1].annotation
    IN Source(TRUE,
              SubSeq(source.body, 1, Len(source.body) - 1)
                  \o << FunctionDef(f.name, OneParameter(
                            Subscript(Attribute(Name("typing"), "Optional"),
                                      t.slice))) >>)

\* C26: an annotation written through a module alias (import typing as X,
\* X.Optional[T]) or a name alias (from typing import Optional as O, O[T])
\* gives the schema that typing.Optional[T] gives.
C26_AliasesHonored ==
    \A f \in AliasedOptionals :
        Parse(Unaliased(parse_call.source)).kind = "return"
            => parse_call.outcome = Parse(Unaliased(parse_call.source))

\* the flag the class documentation gives for a keyword argument: --key
\* for True, --key=value otherwise, underscores of the key written as dashes
DocumentedFlag(item) ==
    << "--" >> \o ReplaceUnderscore(RemovePrefix(item.key))
        \o (IF item.value = PyTrue THEN << >> ELSE << "=", item.value.text >>)

\* C27: every keyword argument passed to a Kubectl command is on the command
\* line as --key=value, or as --key when the value is True; a value of 0 is
\* kept and an underscore of the key becomes a dash.
C27_KeywordsRendered ==
    (kubectl_call # EmptyMap /\ kubectl_call.pc = "spawned")
        => \A i \in DOMAIN kubectl_call.kwargs :
               kubectl_call.kwargs[i].value # PyNone
                   => DocumentedFlag(kubectl_call.kwargs[i])
                          \in Range(kubectl_call.all_args)

\* the keyword arguments _spawn_process receives: a JSON command passes
\* output="json" first
SpawnKwargs ==
    IF kubectl_call.name \in JsonCommands
    THEN << Item(Word("output"), PyStr("json")) >> \o kubectl_call.kwargs
    ELSE kubectl_call.kwargs

\* the positional arguments _spawn_process receives
SpawnArgs == << ReplaceUnderscore(kubectl_call.name) >> \o kubectl_call.args

\* an element of the command line that is a rendered flag
IsFlag(word) == Len(word) > 1 /\ word[1] = "--"

\* the per-call keyword arguments that are rendered, by their flag key
RenderedKwargs ==
    {item \in Range(SpawnKwargs) : Truthy(item.value)}

\* C28: on every command line the rendered flags, the instance defaults
\* merged with the per-call flags and the per-call value winning for a key
\* of both, stand before the first "--"; the "--" and everything after it
\* are passed as they are, in their order, and so are the positional
\* arguments before it.
C28_FlagsBeforeDashDash ==
    (kubectl_call # EmptyMap /\ kubectl_call.pc = "spawned")
        => LET all_args == kubectl_call.all_args
               tail == SubSeq(SpawnArgs, DashdashPosition(SpawnArgs),
                              Len(SpawnArgs))
               flags == SelectSeq(all_args, IsFlag)
           IN /\ \A i \in DOMAIN all_args :
                     IsFlag(all_args[i]) => i < DashdashPosition(all_args)
              /\ SubSeq(all_args, Len(all_args) - Len(tail) + 1, Len(all_args))
                     = tail
              /\ SelectSeq(all_args, LAMBDA word : ~IsFlag(word)) = SpawnArgs
              /\ \A item \in RenderedKwargs :
                     Flag(Item(RemovePrefix(item.key), item.value))
                         \in Range(flags)
              /\ \A i \in DOMAIN kubectl_call.default_kwargs :
                     LET item == kubectl_call.default_kwargs[i] IN
                     (\A call \in RenderedKwargs :
                          RemovePrefix(call.key) # item.key)
                         => Flag(item) \in Range(flags)
              /\ Len(flags)
                     = Cardinality({RemovePrefix(item.key) :
                                        item \in RenderedKwargs}
                                   \cup Keys(kubectl_call.default_kwargs))

\* a command line has been built from a default namespace, a per-call
\* namespace and positional arguments with a "--" in their middle
C28_Witness ==
    /\ kubectl_call # EmptyMap
    /\ kubectl_call.pc = "spawned"
    /\ kubectl_call.default_kwargs = << Item(Word("namespace"), PyStr("default")) >>
    /\ kubectl_call.args = << Word("my-pod"), DashDash, Word("ls") >>
    /\ kubectl_call.kwargs = << Item(Word("namespace"), PyStr("other")) >>
    /\ kubectl_call.all_args
           = << Word("exec"), Word("my-pod"),
                << "--", "namespace", "=", "other" >>, DashDash, Word("ls") >>
\* the step ends an acquire of caller e: executor_pod yields a pod (popped or
\* spawned by the call itself), or the call's own spawn_executor_pod gives up
AcquireEnds(e) ==
    \/ /\ tasks[e].pc \in {"idle", "backoff", "spawn"}
       /\ tasks'[e].pc \in InScope
    \/ /\ tasks[e].pc = "spawn"
       /\ tasks'[e].pc \in {"backoff", "failed"}

\* C30: every acquire schedules a background replenishment, whichever branch
\* it takes: a pop from a non-empty queue, a synchronous spawn with an empty
\* queue, and a synchronous spawn that fails
C30_EveryAcquireSchedulesFill ==
    [][\A e \in Callers :
           AcquireEnds(e) => fill_scheduled' = fill_scheduled + 1]_vars
\* the calls pod p has been yielded to
ConsumersOf(p) == {e \in Callers : p \in tasks[e].pods}

\* C29: every sandbox handed out to an execution is consumed by exactly that
\* one execution, and once the execution has left the scope of executor_pod
\* the sandbox is eventually removed from the orchestrator, the scheduled
\* delete task being run fairly
C29_ConsumedOnceThenRemoved ==
    /\ [](\A p \in Pods :
             /\ yielded[p] <= 1
             /\ yielded[p] = Cardinality(ConsumersOf(p)))
    /\ \A p \in Pods : (p \in released) ~> (cluster[p] = "Removed")
\* the pods created by the spawn_executor_pod of a call, not of a fill
CreatedByCalls == UNION {tasks[e].created : e \in Callers}

\* the pods a fill's spawn has returned: Ready and not created by a call
SpawnedByFills == {p \in Pods : cluster[p] = "Ready"} \ CreatedByCalls

\* the pods of finished spawn tasks the as_completed loops have yet to await
AwaitedByFills ==
    UNION {Range(fill_tasks[f].done) : f \in 1 .. Len(fill_tasks)}

\* C31: in a fill that started several spawns, a spawn that gives up does not
\* abort the others: the pod of every spawn that succeeds is appended to the
\* ready queue (it is waiting for the loop, in the queue or handed out, and
\* the loop gets to it), and no step of a fill, a failing one included,
\* changes the state of a call of execute.
C31_SpawnFailuresIsolated ==
    /\ [](\A p \in SpawnedByFills :
             \/ p \in AwaitedByFills
             \/ p \in Range(executor_pod_queue)
             \/ yielded[p] >= 1)
    /\ \A p \in Pods :
           (p \in SpawnedByFills)
               ~> (p \in Range(executor_pod_queue) \/ yielded[p] >= 1)
    /\ [][fill_tasks' # fill_tasks => tasks' = tasks]_vars

\* C31, its case: the fill at start-up started two spawns; one gave up after
\* its three attempts, the pod of the other is in the queue and the fill has
\* ended.
C31_Witness ==
    /\ executor_pod_queue_target_length = 2
    /\ \A e \in Callers : tasks[e].pc = "idle"
    /\ fill_scheduled = 0
    /\ fill_tasks = << >>
    /\ faults = 0
    /\ Len(executor_pod_queue) = 1
\* the place of x in a sequence without repetitions
Position(seq, x) == CHOOSE i \in DOMAIN seq : seq[i] = x

\* the pods that entered the queue, in that order, are those handed out, in
\* the order of their hand-out, followed by the queue: executor_pod hands out
\* the pod that has been in the queue longest
HandedOutLongestQueued == loop.handed \o loop.queue = loop.appended

\* C32 as stated: the ready queue is FIFO, and sandboxes enter the queue in
\* the order in which their spawns complete.
C32_QueueInCompletionOrder ==
    /\ HandedOutLongestQueued
    /\ \A i, j \in DOMAIN loop.appended :
           i < j => Position(loop.completed, loop.appended[i])
                        < Position(loop.completed, loop.appended[j])

\* C32: the ready queue is FIFO: acquire hands out the sandbox that has been
\* in the queue longest, and the sandboxes of one fill enter the queue in the
\* order in which their spawns complete (those of concurrent fills enter it
\* in the order in which the event loop resumes the fills).
C32_QueueFifoPerFill ==
    /\ HandedOutLongestQueued
    /\ \A i, j \in DOMAIN loop.appended :
           (i < j /\ loop.owner[loop.appended[i]] = loop.owner[loop.appended[j]])
               => Position(loop.completed, loop.appended[i])
                      < Position(loop.completed, loop.appended[j])

\* C32, its case: two fills were running; a spawn of the second finished
\* between two spawns of the first, in one iteration of the loop, its pod
\* entered the queue after both, and a pod has been handed out.
C32_Witness ==
    /\ loop.handed # << >>
    /\ \E i, j \in DOMAIN loop.appended :
           /\ i < j
           /\ loop.owner[loop.appended[i]] # loop.owner[loop.appended[j]]
           /\ Position(loop.completed, loop.appended[i])
                  > Position(loop.completed, loop.appended[j])

\* the fill tasks that are running: started and neither ended nor cancelled
RunningFills == {f \in 1 .. Len(fill_tasks) : ~fill_tasks[f].cancelled}

\* the spawns running fills have started and not yet taken off the count:
\* spawn tasks still running and finished ones the loop has yet to await
UnaccountedSpawns ==
    Cardinality({fi \in RunningFills \X (1 .. executor_pod_queue_target_length) :
        fi[2] <= Len(fill_tasks[fi[1]].spawns) + Len(fill_tasks[fi[1]].done)})

\* C33: the spawning count is never negative and equals the number of spawns
\* that fills have started and not yet accounted for; whenever no fill is
\* running it is 0, also after a fill in which spawns failed or whose task
\* was cancelled midway.
C33_SpawningCountAccounts ==
    /\ executor_pod_queue_spawning_count >= 0
    /\ executor_pod_queue_spawning_count = UnaccountedSpawns
    /\ RunningFills = {} => executor_pod_queue_spawning_count = 0

\* C34: warm-pool liveness. If no spawn fails, then after any finite
\* sequence of acquires, interleaved in any way with the fills, the ready
\* queue eventually holds exactly target pods (never more) and stays there
\* until the next acquire pops one.
C34_WarmPoolLiveness ==
    /\ [](Len(executor_pod_queue) + executor_pod_queue_spawning_count
              <= executor_pod_queue_target_length)
    /\ (Len(executor_pod_queue) # executor_pod_queue_target_length)
           ~> (Len(executor_pod_queue) = executor_pod_queue_target_length)
    /\ <>[](Len(executor_pod_queue) = executor_pod_queue_target_length)
    /\ [][(/\ Len(executor_pod_queue) = executor_pod_queue_target_length
           /\ executor_pod_queue' # executor_pod_queue)
             => /\ executor_pod_queue' = PopLeft(executor_pod_queue)
                /\ yielded'[Head(executor_pod_queue)] =
                       yielded[Head(executor_pod_queue)] + 1]_vars

\* C34, its case: two acquires have each popped a pod, the fills they
\* scheduled have run and ended, and the queue holds target pods again.
C34_Witness ==
    /\ Acquires = 2
    /\ Cardinality({p \in Pods : yielded[p] = 1}) = 2
    /\ fill_scheduled = 0
    /\ fill_tasks = << >>
    /\ Len(executor_pod_queue) = executor_pod_queue_target_length

\* the pods a running spawn_executor_pod has created and is waiting for
WaitedOn ==
    {p \in Pods :
        \/ \E f \in 1 .. Len(fill_tasks) :
              \E i \in 1 .. Len(fill_tasks[f].spawns) :
                 /\ fill_tasks[f].spawns[i].pc = "wait"
                 /\ fill_tasks[f].spawns[i].pod = p
        \/ \E e \in Callers :
              tasks[e].spawn.pc = "wait" /\ tasks[e].spawn.pod = p}

\* C35: every pod spawn_executor_pod has created is, at all times, still
\* being waited on for Ready (or its finished spawn is waiting for the fill's
\* loop), in the ready queue, handed out to a call, or scheduled for
\* deletion: a pod whose wait for Ready fails is not left behind.
C35_NoOrphanSandbox ==
    \A p \in Pods :
        cluster[p] # "absent" =>
            \/ p \in WaitedOn
            \/ p \in AwaitedByFills
            \/ p \in Range(executor_pod_queue)
            \/ \E e \in Callers : tasks[e].pod = p
            \/ p \in released

\* C36: one call of execute consumes at most StopAfterAttempt pods, one per
\* attempt: every attempt is handed a pod no one was handed before, and the
\* pod of a failed attempt has its deletion scheduled before the next attempt
\* acquires one.
C36_OneSandboxPerAttempt ==
    /\ [](\A e \in Callers :
             /\ tasks[e].attempt <= StopAfterAttempt
             /\ Cardinality(tasks[e].pods) <= tasks[e].attempt
             /\ \A p \in tasks[e].pods : yielded[p] = 1
             /\ tasks[e].pods \ {tasks[e].pod} \subseteq released)
    /\ [][\A e \in Callers :
             tasks'[e].pods # tasks[e].pods =>
                 /\ tasks[e].pods \subseteq released
                 /\ tasks'[e].attempt = Cardinality(tasks[e].pods) + 1
                 /\ \E p \in Pods \ tasks[e].pods :
                       /\ yielded[p] = 0
                       /\ tasks'[e].pods = tasks[e].pods \cup {p}]_vars

\* C36, its case: a call whose three attempts each failed in POST /execute
\* has ended with RetryError: it was handed three pods, the first two from
\* the queue, and the deletion of each is scheduled.
C36_Witness ==
    /\ tasks["e1"].pc = "failed"
    /\ tasks["e1"].error = "RetryError"
    /\ tasks["e1"].raised = << "RuntimeError", "RuntimeError", "RuntimeError" >>
    /\ Cardinality(tasks["e1"].pods) = StopAfterAttempt
    /\ tasks["e1"].created # tasks["e1"].pods
    /\ tasks["e1"].pods \subseteq released

\* C37: a call of execute whose arguments fail validation (a malformed hash,
\* or a path that is not an absolute workspace path, in files) fails fast
\* with the pool untouched: no call gets past validation with such
\* arguments; the failed call was handed no pod and spawned none, and was
\* not retried; and the step in which it fails pops, spawns and deletes
\* nothing, schedules no fill and leaves the spawning count alone.
C37_InvalidArgumentsFailFast ==
    /\ [](\A e \in Callers :
             (tasks[e].pc # "idle" /\ tasks[e].error # "ValidationError")
                 => ValidatesFiles(tasks[e].files))
    /\ [](\A e \in Callers :
             "ValidationError" \in Range(tasks[e].raised) =>
                 /\ tasks[e].pc = "failed"
                 /\ tasks[e].error = "ValidationError"
                 /\ tasks[e].attempt = 1
                 /\ tasks[e].raised = << "ValidationError" >>
                 /\ tasks[e].pods = {}
                 /\ tasks[e].created = {}
                 /\ tasks[e].spawn = NoSpawn)
    /\ [][\A e \in Callers :
             ("ValidationError" \notin Range(tasks[e].raised)
                 /\ "ValidationError" \in Range(tasks'[e].raised))
                 => UNCHANGED << executor_pod_queue,
                                 executor_pod_queue_spawning_count,
                                 fill_scheduled, fill_tasks, cluster,
                                 delete_tasks, yielded, released >>]_vars

\* C37, its case: a call has failed validation while the start-up fill was
\* half done: one pod is in the queue and one spawn is in flight.
C37_Witness ==
    /\ tasks["e1"].error = "ValidationError"
    /\ Len(executor_pod_queue) = 1
    /\ executor_pod_queue_spawning_count = 1
    /\ Len(fill_tasks) = 1

\* C38: after restore(pod, files) has completed successfully, scan(pod)
\* equals files, whatever the managed folders held before; and restore
\* raises for a path outside of the managed folders before it deletes or
\* uploads anything.
C38_RestoreThenScan ==
    /\ restore_call.pc = "done" =>
          /\ Scan(restore_call.fs).error = "None"
          /\ Scan(restore_call.fs).files = restore_call.files
    /\ (/\ restore_call.pc \notin {"idle", "scan"}
        /\ \E path \in DOMAIN restore_call.files : ~InManagedFolders(path))
          => /\ restore_call.pc = "raised"
             /\ restore_call.fs = restore_call.before.fs
             /\ restore_call.dirs = restore_call.before.dirs

====
